---- MODULE Spec2Model ----
(***************************************************************************)
(* A model of sml2r-node's Randomizer (src/src/index.ts).                  *)
(*                                                                         *)
(* The image buffer is kept sparse: a function from the offsets that hold  *)
(* a non-zero byte to that byte; every other offset reads 0.  A 32-bit     *)
(* generator state is kept as two 16-bit halves [hi, lo], so that the      *)
(* arithmetic of #nextRNG stays inside TLC's 32-bit integers.             *)
(***************************************************************************)
EXTENDS Integers, Sequences, FiniteSets, TLC

VARIABLES
    rom,          \* #buffer / #rom: the instance's working buffer
    version,      \* #version
    flags,        \* #flags
    initialSeed,  \* #initialSeed
    seed,         \* #seed: the generator state
    valid,        \* valid
    pc,           \* per randomize() call: where the call stands
    running,      \* the call that holds the thread (0: none)
    file,         \* per call: the patch resource it is waiting for
    out,          \* per call: the buffer the call returned
    ran,          \* per call: the passes the call has executed, in order
    log,          \* per call: what the call saw (history, read by the properties)
    lastMask,     \* the raw mask of the last accepted flags input (history)
    lastOp,       \* the last public method called and its argument (history)
    nsets,        \* number of setter calls made so far (history)
    probe         \* inputs and results of the pure-function specifications

vars == <<rom, version, flags, initialSeed, seed, valid, pc, running, file, out,
          ran, log, lastMask, lastOp, nsets, probe>>

(***************************************************************************)
(* Bounds of the model.                                                    *)
(***************************************************************************)
MaxCalls == 2
MaxSets == 1
MaxRedraw == 6

Calls == 1..MaxCalls

(***************************************************************************)
(* Integers as the code uses them.                                         *)
(***************************************************************************)
Half == 2 ^ 16

Bit(x, k) == (x \div (2 ^ k)) % 2

RECURSIVE AndBits(_,_,_,_)
AndBits(x, y, lo, hi) ==
    IF lo = hi THEN (2 ^ lo) * Bit(x, lo) * Bit(y, lo)
    ELSE LET mid == (lo + hi) \div 2
         IN AndBits(x, y, lo, mid) + AndBits(x, y, mid + 1, hi)

RECURSIVE OrBits(_,_,_,_)
OrBits(x, y, lo, hi) ==
    IF lo = hi THEN (2 ^ lo) * (IF Bit(x, lo) = 1 \/ Bit(y, lo) = 1 THEN 1 ELSE 0)
    ELSE LET mid == (lo + hi) \div 2
         IN OrBits(x, y, lo, mid) + OrBits(x, y, mid + 1, hi)

\* x & y, x | y, x << n, x >>> n on values below 2^24
And(x, y) ==
    IF x = 0 \/ y = 0 THEN 0
    ELSE IF x < 256 \/ y < 256 THEN AndBits(x, y, 0, 7) ELSE AndBits(x, y, 0, 23)
Or(x, y) ==
    IF x = 0 THEN y
    ELSE IF y = 0 THEN x
    ELSE IF x < 256 /\ y < 256 THEN OrBits(x, y, 0, 7) ELSE OrBits(x, y, 0, 23)
Shl(x, n) == x * (2 ^ n)
Shr(x, n) == x \div (2 ^ n)

\* a value stored into a Uint8Array element
U8(x) == x % 256

(***************************************************************************)
(* The sparse buffer.                                                      *)
(***************************************************************************)
Rd(r, o) == IF o \in DOMAIN r THEN r[o] ELSE 0

Wr(r, o, b) ==
    LET v == U8(b)
    IN IF v = 0 THEN [x \in (DOMAIN r) \ {o} |-> r[x]]
       ELSE [x \in (DOMAIN r) \cup {o} |-> IF x = o THEN v ELSE r[x]]

\* offsets where two buffers differ
Diff(r1, r2) == {o \in (DOMAIN r1) \cup (DOMAIN r2) : Rd(r1, o) # Rd(r2, o)}

(***************************************************************************)
(* Feature mask.                                                           *)
(***************************************************************************)
SettingBit(name) ==
    CASE name = "randomLevelLocations" -> 0
      [] name = "includeDualLocations" -> 1
      [] name = "randomBossLocations" -> 2
      [] name = "randomBossHealth" -> 3
      [] name = "randomSwapDualExits" -> 4
      [] name = "swapAllDualExits" -> 5
      [] name = "randomGamblingCosts" -> 6
      [] name = "randomBonusGames" -> 7
      [] name = "randomEnemies" -> 8
      [] name = "randomPowerups" -> 9
      [] name = "randomPlatforms" -> 10
      [] name = "randomGravity" -> 11
      [] name = "randomScrollingLevels" -> 12
      [] name = "randomFastScrolling" -> 13
      [] name = "allFastScrolling" -> 14
      [] name = "includeIcePhysics" -> 15
      [] name = "randomLuigiPhysics" -> 16
      [] name = "allLuigiPhysics" -> 17
      [] name = "randomMusic" -> 18
      [] name = "randomFastMusic" -> 19
      [] name = "disableMusic" -> 20
      [] name = "disableSoundFX" -> 21
      [] name = "patchDX" -> 22

SettingNames ==
    <<"randomLevelLocations", "includeDualLocations", "randomBossLocations",
      "randomBossHealth", "randomSwapDualExits", "swapAllDualExits",
      "randomGamblingCosts", "randomBonusGames", "randomEnemies", "randomPowerups",
      "randomPlatforms", "randomGravity", "randomScrollingLevels",
      "randomFastScrolling", "allFastScrolling", "includeIcePhysics",
      "randomLuigiPhysics", "allLuigiPhysics", "randomMusic", "randomFastMusic",
      "disableMusic", "disableSoundFX", "patchDX">>

sanitizeFlagsSkipExits(f) ==
    LET c1 == IF And(f, \b11) = \b10 THEN Or(f, \b01) ELSE f
        c3 == IF And(c1, \b000000000110000000000000) = \b000000000110000000000000
              THEN And(c1, \b111111111101111111111111) ELSE c1
        c4 == IF And(c3, \b000000110000000000000000) = \b000000110000000000000000
              THEN And(c3, \b111111101111111111111111) ELSE c3
    IN c4

sanitizeFlags(f) ==
    LET c1 == IF And(f, \b11) = \b10 THEN Or(f, \b01) ELSE f
        c2 == IF And(c1, \b110000) = \b110000
              THEN And(c1, \b111111111111111111101111) ELSE c1
        c3 == IF And(c2, \b000000000110000000000000) = \b000000000110000000000000
              THEN And(c2, \b111111111101111111111111) ELSE c2
        c4 == IF And(c3, \b000000110000000000000000) = \b000000110000000000000000
              THEN And(c3, \b111111101111111111111111) ELSE c3
    IN c4

\* the mask a Settings object stands for, before #sanitizeFlags: a Settings
\* object is the set of the names it holds a truthy value for
RECURSIVE rawFlags(_,_,_)
rawFlags(settings, lo, hi) ==
    IF lo = hi
    THEN (IF SettingNames[lo] \in settings THEN 2 ^ SettingBit(SettingNames[lo]) ELSE 0)
    ELSE LET mid == (lo + hi) \div 2
         IN Or(rawFlags(settings, lo, mid), rawFlags(settings, mid + 1, hi))

flagsGenerator(settings) == sanitizeFlags(rawFlags(settings, 1, Len(SettingNames)))

\* a flags input is a number, [number |-> n], or a Settings object, [settings |-> S]
IsNumber(x) == "number" \in DOMAIN x
FlagsInRange(n) == n >= 0 /\ n <= \hFFFFFF

(***************************************************************************)
(* The generator.                                                          *)
(***************************************************************************)
LcgA == 1664525
LcgC == 1013904223

S32(h, l) == [hi |-> h, lo |-> l]

nextRNG(s) ==
    LET t0 == s.lo * (LcgA % Half) + (LcgC % Half)
        t1 == s.hi * (LcgA % Half) + s.lo * (LcgA \div Half) + (LcgC \div Half)
              + (t0 \div Half)
    IN S32(t1 % Half, t0 % Half)

\* #randomFloat returns nextRNG / 2^32; the float is kept as its numerator
randomFloat(s) == nextRNG(s)

\* float < p, for the probabilities the code compares with: the least
\* numerator n with n / 2^32 >= p, p being the double the literal denotes
Threshold(pct) ==
    CASE pct = 50 -> S32(32768, 0)
      [] pct = 40 -> S32(26214, 26215)
      [] pct = 30 -> S32(19660, 52429)
      [] pct = 25 -> S32(16384, 0)
      [] pct = 15 -> S32(9830, 26215)
      [] pct = 10 -> S32(6553, 39322)
      [] pct = 8 -> S32(5242, 57672)
      [] pct = 5 -> S32(3276, 52429)
      [] pct = 2 -> S32(1310, 47186)

Below(f, pct) ==
    LET t == Threshold(pct)
    IN f.hi < t.hi \/ (f.hi = t.hi /\ f.lo < t.lo)

\* float * lim cut towards zero
floorMulTowardsZero(f, lim) ==
    IF lim >= 0
    THEN (f.hi * lim + (f.lo * lim) \div Half) \div Half
    ELSE 0 - ((f.hi * (0 - lim) + (f.lo * (0 - lim)) \div Half) \div Half)

\* Math.floor(float * lim), float = f / 2^32
floorMul(f, lim) ==
    IF lim >= 0
    THEN (f.hi * lim + (f.lo * lim) \div Half) \div Half
    ELSE LET m == 0 - lim
             low == (f.lo * m) \div Half
             q == (f.hi * m + low) \div Half
             exact == (f.lo * m) % Half = 0 /\ (f.hi * m + low) % Half = 0
         IN IF exact THEN 0 - q ELSE 0 - (q + 1)

\* #randomInt(lim), from the generator state s: the value and the new state
randomInt(s, lim) ==
    LET f == randomFloat(s)
    IN [val |-> floorMul(f, lim), seed |-> f]

\* #randomBool(), from the generator state s
randomBool(s) ==
    LET f == randomFloat(s)
    IN [val |-> Below(f, 50), seed |-> f]

\* seed >= 0x10000000 && seed <= 0xFFFFFFFF, on the two halves
\* (undefined compares false with every number)
Undefined == [undefined |-> TRUE]
\* the test without its lower limit
SeedInRangeNoFloor(s) == "hi" \in DOMAIN s /\ s.hi <= \hFFFF
SeedInRange(s) == "hi" \in DOMAIN s /\ s.hi >= \h1000 /\ s.hi <= \hFFFF

(***************************************************************************)
(* The attribute codec.                                                    *)
(***************************************************************************)
spriteExtract(a, b) ==
    LET x == Shl(And(\b00010000, a), 2)
        y == Shr(And(\b11100000, a), 2)
        z == Shr(And(\b11100000, b), 5)
    IN Or(Or(x, y), z)

spriteInsertLowBits(a, b, s) ==
    LET x == Shr(And(s, \b01000000), 2)
        y == Shl(And(s, \b00111000), 2)
        z == Shl(And(s, \b00000111), 5)
    IN <<Or(Or(And(a, \b00001111), x), y), Or(And(b, \b00001111), z)>>

spriteInsert(a, b, s) ==
    LET x == Shr(And(s, \b01000000), 2)
        y == Shl(And(s, \b00111000), 2)
        z == Shl(And(s, \b00000111), 5)
    IN <<Or(Or(And(a, \b00001111), x), y), Or(And(b, \b00011111), z)>>

spriteCopy(r, arr, pos) == Wr(Wr(r, pos, arr[1]), pos + 1, arr[2])

\* #spriteRandomize(arr, idx) on st = [rom, seed]
spriteRandomize(st, arr, idx) ==
    LET d == randomInt(st.seed, Len(arr))
        s == spriteInsert(Rd(st.rom, idx), Rd(st.rom, idx + 1), arr[d.val + 1])
    IN [rom |-> spriteCopy(st.rom, s, idx), seed |-> d.seed]

(***************************************************************************)
(* Loops.  A loop of the code is a step operator on a record that holds    *)
(* the loop variable i and what the loop reads and writes; a finished loop *)
(* has i = -1.  The loop itself, xLoop(n, st), runs at most n steps from   *)
(* st, halving n so that the evaluation stays shallow.                     *)
(***************************************************************************)
Fin == 0 - 1

\* the buffer and the generator state a loop record holds
RS(st) == [rom |-> st.rom, seed |-> st.seed]

\* the loop record st after an iteration that leaves w = [rom, seed] and moves i to nxt
Moved(st, nxt, w) == [st EXCEPT !.i = nxt, !.rom = w.rom, !.seed = w.seed]

\* one iteration of #shuffle's loop: i runs from a.length - 1 down to 1
shuffleStep(st) ==
    IF st.i <= 0 THEN [st EXCEPT !.i = Fin]
    ELSE LET d == randomInt(st.seed, st.i + 1)
             r == d.val
         IN [i |-> IF st.i - 1 > 0 THEN st.i - 1 ELSE Fin,
             a |-> [st.a EXCEPT ![st.i + 1] = st.a[r + 1], ![r + 1] = st.a[st.i + 1]],
             seed |-> d.seed]

RECURSIVE shuffleLoop(_,_)
shuffleLoop(n, st) ==
    IF n <= 0 \/ st.i = Fin THEN st
    ELSE IF n = 1 THEN shuffleStep(st)
    ELSE LET mid == shuffleLoop(n \div 2, st)
         IN IF mid.i = Fin THEN mid ELSE shuffleLoop(n - (n \div 2), mid)

unshuffled(a, s) == [a |-> a, seed |-> s]

shuffled(st) == [a |-> st.a, seed |-> st.seed]

shuffle(a, s) == shuffled(shuffleLoop(Len(a) - 1, [i |-> Len(a) - 1, a |-> a, seed |-> s]))

\* offsets.forEach((offset, index) => this.#rom[offset] = values[index])
writeStep(st) ==
    IF st.i > Len(st.offs) THEN [st EXCEPT !.i = Fin]
    ELSE [st EXCEPT !.i = IF st.i < Len(st.offs) THEN st.i + 1 ELSE Fin,
                    !.rom = Wr(st.rom, st.offs[st.i], st.vals[st.i])]

RECURSIVE writeLoop(_,_)
writeLoop(n, st) ==
    IF n <= 0 \/ st.i = Fin THEN st
    ELSE IF n = 1 THEN writeStep(st)
    ELSE LET mid == writeLoop(n \div 2, st)
         IN IF mid.i = Fin THEN mid ELSE writeLoop(n - (n \div 2), mid)

writeAll(r, offs, vals) ==
    writeLoop(Len(offs), [i |-> 1, rom |-> r, offs |-> offs, vals |-> vals]).rom

\* for (i = from; i <= last; i += stride) this.#rom[i] = this.#randomInt(n) + add
drawStep(st) ==
    IF st.i > st.last THEN [st EXCEPT !.i = Fin]
    ELSE LET d == randomInt(st.seed, st.n)
         IN [st EXCEPT !.i = IF st.i + st.stride <= st.last THEN st.i + st.stride ELSE Fin,
                       !.rom = Wr(st.rom, st.i, d.val + st.add),
                       !.seed = d.seed]

RECURSIVE drawLoop(_,_)
drawLoop(n, st) ==
    IF n <= 0 \/ st.i = Fin THEN st
    ELSE IF n = 1 THEN drawStep(st)
    ELSE LET mid == drawLoop(n \div 2, st)
         IN IF mid.i = Fin THEN mid ELSE drawLoop(n - (n \div 2), mid)

drawRange(st, from, last, stride, n, add) ==
    RS(drawLoop((last - from) \div stride + 1,
                [i |-> from, last |-> last, stride |-> stride, n |-> n, add |-> add,
                 rom |-> st.rom, seed |-> st.seed]))

(***************************************************************************)
(* The passes, each on st = [rom, seed].                                   *)
(***************************************************************************)
GamblingOffsets == <<\h3F45F, \h3F428, \h3F3F1, \h3F3BA>>

gamblingStep(st) ==
    IF st.i > Len(GamblingOffsets) THEN [st EXCEPT !.i = Fin]
    ELSE LET index == st.i - 1
             offset == GamblingOffsets[st.i]
             costMin == 20 + 140 * index
             costMax == 120 + 280 * index
             d == randomInt(st.seed, costMax - costMin + 1)
             cost == d.val + costMin
         IN [i |-> IF st.i < Len(GamblingOffsets) THEN st.i + 1 ELSE Fin,
             rom |-> Wr(Wr(st.rom, offset, cost % 100), offset + 1, cost \div 100),
             seed |-> d.seed]

RECURSIVE gamblingLoop(_,_)
gamblingLoop(n, st) ==
    IF n <= 0 \/ st.i = Fin THEN st
    ELSE IF n = 1 THEN gamblingStep(st)
    ELSE LET mid == gamblingLoop(n \div 2, st)
         IN IF mid.i = Fin THEN mid ELSE gamblingLoop(n - (n \div 2), mid)

randomizeGambling(st) ==
    RS(gamblingLoop(Len(GamblingOffsets), [i |-> 1, rom |-> st.rom, seed |-> st.seed]))

MainLevels ==
    <<\h00, \h01, \h03, \h04, \h06, \h0A, \h0B, \h0C, \h0E, \h15, \h16, \h19,
      \h1A, \h1B, \h1C, \h1D, \h1E, \h1F>>
MainOffsets ==
    <<\h3C218, \h3C23B, \h3C239, \h3C23C, \h3C240, \h3C268, \h3C269, \h3C26A,
      \h3C25E, \h3C24B, \h3C24C, \h3C21C, \h3C27E, \h3C290, \h3C25C, \h3C23E,
      \h3C282, \h3C292>>
SecretLevels == <<\h02, \h07, \h08, \h0F, \h11, \h12, \h14>>
SecretOffsets == <<\h3C23A, \h3C241, \h3C242, \h3C260, \h3C21D, \h3C254, \h3C24A>>

\* level offset and zone clear byte
LevelBossSetOne ==
    <<<<\h3C238, \h05>>, <<\h3C243, \h09>>, <<\h3C24D, \h0E>>, <<\h3C255, \h11>>,
      <<\h3C261, \h17>>, <<\h3C26B, \h1D>>>>
\* level byte and zone clear offset
LevelBossSetTwo ==
    <<<<\h05, \h304F6>>, <<\h09, \h304FA>>, <<\h17, \h30508>>, <<\h13, \h30504>>,
      <<\h10, \h30501>>, <<\h0D, \h304FE>>>>

\* a do/while that never goes round again
redrawnOnce(i, sh) == [i |-> Fin, a |-> sh.a, seed |-> sh.seed]

\* do { shuffle(levels) } while (levels[0] === 0x1A): one round per step
redrawn(i, sh) == [i |-> IF sh.a[1] = \h1A THEN i + 1 ELSE Fin, a |-> sh.a, seed |-> sh.seed]

redrawStep(st) == redrawn(st.i, shuffle(st.a, st.seed))

RECURSIVE redrawLoop(_,_)
redrawLoop(n, st) ==
    IF n <= 0 \/ st.i = Fin THEN st
    ELSE IF n = 1 THEN redrawStep(st)
    ELSE LET mid == redrawLoop(n \div 2, st)
         IN IF mid.i = Fin THEN mid ELSE redrawLoop(n - (n \div 2), mid)

\* the do/while of #randomizeLevels; i = -1 when it has returned
shuffleLevels(a, s) == redrawLoop(MaxRedraw, [i |-> 0, a |-> a, seed |-> s])

\* a forEach that writes the second byte through the next entry of the shuffled table
bossStepNextEntry(st) ==
    IF st.i > Len(st.one) THEN [st EXCEPT !.i = Fin]
    ELSE LET arr == st.one[st.i]
             two == st.two[st.i]
             other == st.two[(st.i % Len(st.two)) + 1]
         IN [st EXCEPT !.i = IF st.i < Len(st.one) THEN st.i + 1 ELSE Fin,
                       !.rom = Wr(Wr(st.rom, arr[1], two[1]), other[2] - st.v, arr[2] - st.v)]

\* bossSetOne.forEach((arr, index) => ...), by the offset shift v of the caller
bossStep(st) ==
    IF st.i > Len(st.one) THEN [st EXCEPT !.i = Fin]
    ELSE LET arr == st.one[st.i]
             two == st.two[st.i]
         IN [st EXCEPT !.i = IF st.i < Len(st.one) THEN st.i + 1 ELSE Fin,
                       !.rom = Wr(Wr(st.rom, arr[1], two[1]), two[2] - st.v, arr[2] - st.v)]

RECURSIVE bossLoop(_,_)
bossLoop(n, st) ==
    IF n <= 0 \/ st.i = Fin THEN st
    ELSE IF n = 1 THEN bossStep(st)
    ELSE LET mid == bossLoop(n \div 2, st)
         IN IF mid.i = Fin THEN mid ELSE bossLoop(n - (n \div 2), mid)

writeBosses(r, one, two, v) ==
    bossLoop(Len(one), [i |-> 1, rom |-> r, one |-> one, two |-> two, v |-> v]).rom

\* the first secret level written to every secret slot
placeSecretsRepeated(r, sh) ==
    [rom |-> writeAll(r, SecretOffsets, [k \in 1..Len(SecretOffsets) |-> sh.a[1]]),
     seed |-> sh.seed]

\* the else branch of "mixing in secret levels": the secrets among themselves
placeSecrets(r, sh) == [rom |-> writeAll(r, SecretOffsets, sh.a), seed |-> sh.seed]

\* the levels the do/while left, written to their offsets, and the mirror slot
placeLevels(r, offsets, lv) ==
    [rom |-> writeAll(r, offsets, lv.a), seed |-> lv.seed, returned |-> lv.i = Fin]

\* the mirror written one slot further
mirrorNextSlot(st) == [st EXCEPT !.rom = Wr(st.rom, \h3C233, Rd(st.rom, \h3C21D))]

mirror(st) == [st EXCEPT !.rom = Wr(st.rom, \h3C232, Rd(st.rom, \h3C21D))]

placeBosses(st, two) ==
    [rom |-> writeBosses(st.rom, LevelBossSetOne, two.a, 0), seed |-> two.seed,
     returned |-> st.returned]

shuffleSecrets(st, hidden) ==
    IF hidden THEN st ELSE placeSecrets(st.rom, shuffle(SecretLevels, st.seed))

shuffleMain(st, hidden) ==
    IF hidden
    THEN placeLevels(st.rom, MainOffsets \o SecretOffsets,
                     shuffleLevels(MainLevels \o SecretLevels, st.seed))
    ELSE placeLevels(st.rom, MainOffsets, shuffleLevels(MainLevels, st.seed))

shuffleBosses(st) == placeBosses(st, shuffle(LevelBossSetTwo, st.seed))

\* #randomizeLevels under the mask f: [rom, seed], and whether the do/while returned
randomizeLevels(st, f) ==
    shuffleBosses(mirror(shuffleMain(shuffleSecrets(st, And(f, \b10) > 0), And(f, \b10) > 0)))

\* boss offset and gfx byte
BossSetOne ==
    <<<<\h8E03, \h84>>, <<\h8E08, \h8C>>, <<\h8E0D, \hAC>>, <<\h8E12, \h9C>>,
      <<\h8E17, \h94>>, <<\h8E1C, \hA4>>>>
\* boss byte (level) and gfx offset
BossSetTwo ==
    <<<<\h05, \h1413B>>, <<\h09, \h1413D>>, <<\h0D, \h14145>>, <<\h10, \h14141>>,
      <<\h13, \h1413F>>, <<\h17, \h14143>>>>

placeGfx(r, two, v) == [rom |-> writeBosses(r, BossSetOne, two.a, v), seed |-> two.seed]

randomizeBosses(st, ver) ==
    placeGfx(st.rom, shuffle(BossSetTwo, st.seed), IF ver = 2 THEN 7 ELSE 0)

\* the three forEach of #randomizeBossHP, as <<offset, n, add>>:
\* this.#rom[offset] = 2 * (this.#randomInt(n) + add)
BossHP ==
    <<<<\h8FBB, 3, 2>>, <<\h8FA9, 3, 2>>, <<\h8E58, 3, 2>>,
      <<\h8E52, 4, 3>>, <<\h8E5B, 4, 3>>, <<\h8E61, 4, 3>>,
      <<\h8E5E, 3, 3>>, <<\h8E55, 3, 3>>, <<\h8E64, 3, 3>>, <<\h8E67, 3, 3>>,
      <<\h8E6A, 3, 3>>>>

bossHPStep(st) ==
    IF st.i > Len(BossHP) THEN [st EXCEPT !.i = Fin]
    ELSE LET e == BossHP[st.i]
             d == randomInt(st.seed, e[2])
         IN [i |-> IF st.i < Len(BossHP) THEN st.i + 1 ELSE Fin,
             rom |-> Wr(st.rom, e[1], 2 * (d.val + e[3])),
             seed |-> d.seed]

RECURSIVE bossHPLoop(_,_)
bossHPLoop(n, st) ==
    IF n <= 0 \/ st.i = Fin THEN st
    ELSE IF n = 1 THEN bossHPStep(st)
    ELSE LET mid == bossHPLoop(n \div 2, st)
         IN IF mid.i = Fin THEN mid ELSE bossHPLoop(n - (n \div 2), mid)

randomizeBossHP(st) ==
    RS(bossHPLoop(Len(BossHP), [i |-> 1, rom |-> st.rom, seed |-> st.seed]))

\* {byte, offsets}
DualExits ==
    <<<<\h02, \h2A385, \h29947>>, <<\h11, \h4C8EB, \h4CA7F>>, <<\h12, \h4DA53, \h4D27B>>,
      <<\h14, \h54ACE, \h5475A>>, <<\h07, \h49215, \h4949E>>, <<\h08, \h49F61, \h499A7>>,
      <<\h0F, \h51D99, \h51D29>>>>

swapBytes(r, o1, o2) == Wr(Wr(r, o1, Rd(r, o2)), o2, Rd(r, o1))

\* a swap of every pair whose level byte differs from the byte at 0x3C24A
exitStepByLevel(st) ==
    IF st.i > Len(DualExits) THEN [st EXCEPT !.i = Fin]
    ELSE LET level == DualExits[st.i]
             nxt == IF st.i < Len(DualExits) THEN st.i + 1 ELSE Fin
             swapped == swapBytes(st.rom, level[2], level[3])
         IN IF st.all = FALSE
            THEN LET b == randomBool(st.seed)
                 IN [st EXCEPT !.i = nxt, !.seed = b.seed,
                               !.rom = IF b.val THEN swapped ELSE st.rom]
            ELSE IF Rd(st.rom, \h3C24A) # level[1]
                 THEN [st EXCEPT !.i = nxt, !.rom = swapped]
                 ELSE [st EXCEPT !.i = nxt]

exitStep(st) ==
    IF st.i > Len(DualExits) THEN [st EXCEPT !.i = Fin]
    ELSE LET level == DualExits[st.i]
             nxt == IF st.i < Len(DualExits) THEN st.i + 1 ELSE Fin
             swapped == swapBytes(st.rom, level[2], level[3])
         IN IF st.all = FALSE
            THEN LET b == randomBool(st.seed)
                 IN [st EXCEPT !.i = nxt, !.seed = b.seed,
                               !.rom = IF b.val THEN swapped ELSE st.rom]
            ELSE IF Rd(st.rom, \h3C24A) = \h11
                    \/ (level[1] # \h11 /\ Rd(st.rom, \h3C24A) # level[1])
                 THEN [st EXCEPT !.i = nxt, !.rom = swapped]
                 ELSE [st EXCEPT !.i = nxt]

RECURSIVE exitLoop(_,_)
exitLoop(n, st) ==
    IF n <= 0 \/ st.i = Fin THEN st
    ELSE IF n = 1 THEN exitStep(st)
    ELSE LET mid == exitLoop(n \div 2, st)
         IN IF mid.i = Fin THEN mid ELSE exitLoop(n - (n \div 2), mid)

swapDualExits(st, all) ==
    RS(exitLoop(Len(DualExits), [i |-> 1, all |-> all, rom |-> st.rom, seed |-> st.seed]))

randomizeBonus(st) ==
    LET s1 == drawRange(st, \h60A58, \h60A7F, 1, 5, 0)
        s2 == drawRange(s1, \h60A2F, \h60A56, 1, 5, 0)
        s3 == drawRange(s2, \h60A1A, \h60A2D, 1, 5, 0)
    IN drawRange(s3, \h3E766, \h3E76F, 3, 4, \h2D)

(***************************************************************************)
(* Entity scans.                                                           *)
(***************************************************************************)
InSeq(x, a) == \E k \in 1..Len(a) : a[k] = x

\* a scan that ends at a 0xFF first byte
after3Stop(i, ff, end) == IF ff THEN Fin ELSE IF i + 3 < end THEN i + 3 ELSE Fin

\* the index after i in for (...; i < end; i += 3), ff telling that i was
\* stepped back by 2 in the body
after3(i, ff, end) == IF (IF ff THEN i - 2 ELSE i) + 3 < end THEN (IF ff THEN i - 2 ELSE i) + 3 ELSE Fin

\* the body of a scan at i, sprite being the id read there
scanBody(st, sprite) ==
    IF Rd(st.rom, st.i) = \hFF THEN [st EXCEPT !.i = after3(st.i, TRUE, st.end)]
    ELSE IF InSeq(sprite, st.pool)
    THEN Moved(st, after3(st.i, FALSE, st.end), spriteRandomize(RS(st), st.pool, st.i))
    ELSE [st EXCEPT !.i = after3(st.i, FALSE, st.end)]

\* for (i = start; i < end; i += 3): a 0xFF first byte steps i back by 2;
\* an entity whose id is in the pool is redrawn from the pool
scanStep(st) ==
    IF st.i >= st.end THEN [st EXCEPT !.i = Fin]
    ELSE scanBody(st, spriteExtract(Rd(st.rom, st.i), Rd(st.rom, st.i + 1)))

RECURSIVE scanLoop(_,_)
scanLoop(n, st) ==
    IF n <= 0 \/ st.i = Fin THEN st
    ELSE IF n = 1 THEN scanStep(st)
    ELSE LET mid == scanLoop(n \div 2, st)
         IN IF mid.i = Fin THEN mid ELSE scanLoop(n - (n \div 2), mid)

scan(st, pool, start, end) ==
    RS(scanLoop(end - start,
                [i |-> start, end |-> end, pool |-> pool, rom |-> st.rom, seed |-> st.seed]))

\* {enemies, start, end}
EnemyLevels ==
    <<<<(<<\h01, \h08, \h09, \h3A>>), \hE077, \hE0BC>>,
      <<(<<\h01, \h08, \h09, \h3A>>), \hE955, \hE99D>>,
      <<(<<\h08, \h09, \h3A>>), \hEA2F, \hEA7D>>,
      <<(<<\h08, \h09, \h3A>>), \hEAA3, \hEACD>>,
      <<(<<\h1F, \h20, \h21, \h22>>), \hE0BD, \hE123>>,
      <<(<<\h44, \h58>>), \hE124, \hE181>>,
      <<(<<\h35, \h3E, \h40, \h41, \h42>>), \hE182, \hE1EE>>,
      <<(<<\h33, \h34, \h5D>>), \hE1EF, \hE249>>,
      <<(<<\h08, \h39, \h3A>>), \hE24A, \hE2A1>>,
      <<(<<\h4D, \h54, \h55, \h56, \h5E, \h5F>>), \hE30C, \hE384>>,
      <<(<<\h4D, \h57>>), \hE385, \hE3D3>>,
      <<(<<\h01, \h40, \h4B>>), \hE432, \hE49B>>,
      <<(<<\h08, \h09, \h3A, \h44, \h4D>>), \hE49C, \hE4F9>>,
      <<(<<\h05, \h06, \h07, \h08, \h09, \h0B, \h3A, \h3D>>), \hE5C2, \hE62B>>,
      <<(<<\h05, \h39, \h57, \h5B>>), \hE706, \hE77B>>,
      <<(<<\h5C, \h5E, \h5F>>), \hE7C8, \hE822>>,
      <<(<<\h22, \h23, \h25, \h27>>), \hE823, \hE88F>>,
      <<(<<\h07, \h33, \h34, \h3D, \h5D>>), \hE890, \hE8F6>>,
      <<(<<\h01, \h08, \h09, \h34, \h3A, \h55>>), \hE8F7, \hE954>>,
      <<(<<\h68, \h69>>), \hE99E, \hEA2E>>,
      <<(<<\h6E, \h6F>>), \hE99E, \hEA2E>>,
      <<(<<\h01, \h09>>), \hEB55, \hEBB5>>>>

\* levels.forEach(level => scan of the level's range with the level's pool)
levelsStep(st) ==
    IF st.i > Len(st.levels) THEN [st EXCEPT !.i = Fin]
    ELSE Moved(st, IF st.i < Len(st.levels) THEN st.i + 1 ELSE Fin,
               scan(RS(st), st.levels[st.i][1], st.levels[st.i][2], st.levels[st.i][3]))

RECURSIVE levelsLoop(_,_)
levelsLoop(n, st) ==
    IF n <= 0 \/ st.i = Fin THEN st
    ELSE IF n = 1 THEN levelsStep(st)
    ELSE LET mid == levelsLoop(n \div 2, st)
         IN IF mid.i = Fin THEN mid ELSE levelsLoop(n - (n \div 2), mid)

scanLevels(st, levels) ==
    RS(levelsLoop(Len(levels), [i |-> 1, levels |-> levels, rom |-> st.rom, seed |-> st.seed]))

\* the switch loops of lv06, lv09, lv0C, lv0D, lv0F, lv10, lv12:
\* {start, end, cases}, a case being {the ids of its labels, its pool}
SwitchLevels ==
    <<<<\hE2A2, \hE30B,
        <<<<{\h4E}, <<\h4D, \h4E, \h51, \h53>>>>,
          <<{\h4F}, <<\h4D, \h4F, \h51, \h53>>>>,
          <<{\h4D, \h51, \h53}, <<\h4D, \h51, \h53>>>>>>>>,
      <<\hE3D4, \hE431,
        <<<<{\h4F}, <<\h4D, \h4F, \h53, \h5A, \h5C>>>>,
          <<{\h4D, \h53, \h5A, \h5C}, <<\h4D, \h53, \h5A, \h5C>>>>>>>>,
      <<\hE4FA, \hE560,
        <<<<{\h49}, <<\h01, \h47, \h48, \h49, \h53>>>>,
          <<{\h01, \h47, \h48}, <<\h01, \h47, \h48, \h53>>>>>>>>,
      <<\hE561, \hE5C1,
        <<<<{\h43}, <<\h09, \h43, \h4D, \h53>>>>,
          <<{\h4C}, <<\h09, \h4C, \h4D, \h53>>>>,
          <<{\h09, \h4D}, <<\h09, \h4D, \h53>>>>>>>>,
      <<\hE62C, \hE6BF,
        <<<<{\h01}, <<\h01, \h06, \h53, \h55, \h56>>>>,
          <<{\h21}, <<\h06, \h21, \h53, \h55, \h56>>>>,
          <<{\h06, \h55, \h56}, <<\h06, \h53, \h55, \h56>>>>>>>>,
      <<\hE6C0, \hE705,
        <<<<{\h21}, <<\h01, \h08, \h20, \h21, \h3A, \h55>>>>,
          <<{\h01, \h08, \h20, \h3A, \h55}, <<\h01, \h08, \h20, \h3A, \h55>>>>>>>>,
      <<\hE77C, \hE7C7,
        <<<<{\h4D}, <<\h4D, \h58>>>>,
          <<{\h58, \h5A}, <<\h4D, \h58, \h5A>>>>>>>>>>

\* for (i = start; i < end; i += 3) switch (spriteExtract(...)): no 0xFF test
\* the first case with a label equal to sprite (0: the default)
caseOf(cases, sprite) ==
    IF \E k \in 1..Len(cases) : sprite \in cases[k][1]
    THEN CHOOSE k \in 1..Len(cases) :
             sprite \in cases[k][1] /\ \A d \in 1..(k - 1) : sprite \notin cases[d][1]
    ELSE 0

\* a switch that draws from the pool of its first case, whichever case matched
switchBodyFirstPool(st, k) ==
    IF k = 0 THEN [st EXCEPT !.i = after3(st.i, FALSE, st.end)]
    ELSE Moved(st, after3(st.i, FALSE, st.end), spriteRandomize(RS(st), st.cases[1][2], st.i))

switchBody(st, k) ==
    IF k = 0 THEN [st EXCEPT !.i = after3(st.i, FALSE, st.end)]
    ELSE Moved(st, after3(st.i, FALSE, st.end), spriteRandomize(RS(st), st.cases[k][2], st.i))

switchStep(st) ==
    IF st.i >= st.end THEN [st EXCEPT !.i = Fin]
    ELSE switchBody(st, caseOf(st.cases, spriteExtract(Rd(st.rom, st.i), Rd(st.rom, st.i + 1))))

RECURSIVE switchLoop(_,_)
switchLoop(n, st) ==
    IF n <= 0 \/ st.i = Fin THEN st
    ELSE IF n = 1 THEN switchStep(st)
    ELSE LET mid == switchLoop(n \div 2, st)
         IN IF mid.i = Fin THEN mid ELSE switchLoop(n - (n \div 2), mid)

switchLevelStep(st) ==
    IF st.i > Len(SwitchLevels) THEN [st EXCEPT !.i = Fin]
    ELSE Moved(st, IF st.i < Len(SwitchLevels) THEN st.i + 1 ELSE Fin,
               switchLoop((SwitchLevels[st.i][2] - SwitchLevels[st.i][1] + 2) \div 3,
                          [i |-> SwitchLevels[st.i][1], end |-> SwitchLevels[st.i][2],
                           cases |-> SwitchLevels[st.i][3], rom |-> st.rom,
                           seed |-> st.seed]))

RECURSIVE switchLevelLoop(_,_)
switchLevelLoop(n, st) ==
    IF n <= 0 \/ st.i = Fin THEN st
    ELSE IF n = 1 THEN switchLevelStep(st)
    ELSE LET mid == switchLevelLoop(n \div 2, st)
         IN IF mid.i = Fin THEN mid ELSE switchLevelLoop(n - (n \div 2), mid)

Thwomps == <<\hE9D6, \hE9D9, \hE9DF, \hE9E2, \hE9E5>>

thwompStep(st) ==
    IF st.i > Len(Thwomps) THEN [st EXCEPT !.i = Fin]
    ELSE LET f == randomFloat(st.seed)
         IN [i |-> IF st.i < Len(Thwomps) THEN st.i + 1 ELSE Fin,
             rom |-> Wr(st.rom, Thwomps[st.i], IF Below(f, 10) THEN \h35 ELSE \h34),
             seed |-> f]

RECURSIVE thwompLoop(_,_)
thwompLoop(n, st) ==
    IF n <= 0 \/ st.i = Fin THEN st
    ELSE IF n = 1 THEN thwompStep(st)
    ELSE LET mid == thwompLoop(n \div 2, st)
         IN IF mid.i = Fin THEN mid ELSE thwompLoop(n - (n \div 2), mid)

\* i < 0xE30C || i > 0xE384 && i < 0xE3D4 || i > 0xE431 && i < 0xE8F7 || i > 0xE954
Inside(i) ==
    i < \hE30C \/ (i > \hE384 /\ i < \hE3D4) \/ (i > \hE431 /\ i < \hE8F7) \/ i > \hE954

flipped(st, b) ==
    [rom |-> spriteCopy(st.rom,
                        spriteInsert(Rd(st.rom, st.i), Rd(st.rom, st.i + 1),
                                     IF b.val THEN \h0C ELSE \h0D), st.i),
     seed |-> b.seed]

piranhaBody(st, sprite) ==
    IF Rd(st.rom, st.i) = \hFF THEN [st EXCEPT !.i = after3(st.i, TRUE, \hEBB5)]
    ELSE IF sprite = \h0C \/ sprite = \h0D
    THEN Moved(st, after3(st.i, FALSE, \hEBB5), flipped(st, randomBool(st.seed)))
    ELSE [st EXCEPT !.i = after3(st.i, FALSE, \hEBB5)]

\* piranha plants
piranhaStep(st) ==
    IF st.i >= \hEBB5 THEN [st EXCEPT !.i = Fin]
    ELSE IF Inside(st.i)
    THEN piranhaBody(st, spriteExtract(Rd(st.rom, st.i), Rd(st.rom, st.i + 1)))
    ELSE [st EXCEPT !.i = after3(st.i, FALSE, \hEBB5)]

RECURSIVE piranhaLoop(_,_)
piranhaLoop(n, st) ==
    IF n <= 0 \/ st.i = Fin THEN st
    ELSE IF n = 1 THEN piranhaStep(st)
    ELSE LET mid == piranhaLoop(n \div 2, st)
         IN IF mid.i = Fin THEN mid ELSE piranhaLoop(n - (n \div 2), mid)

\* the loop record that starts a loop at i on what st holds
At(i, st) == [i |-> i, rom |-> st.rom, seed |-> st.seed]

randomizeEnemies(st) ==
    RS(piranhaLoop(\hEBB5 - \hE077,
        At(\hE077, thwompLoop(Len(Thwomps),
            At(1, switchLevelLoop(Len(SwitchLevels),
                At(1, scanLevels(st, EnemyLevels))))))))

Free == <<\h0F, \h1B, \h1C, \h1D, \h1E, \h1F>>
Block == <<\h11, \h12, \h13, \h14, \h15, \h19>>
\* free.slice(0, free.length - 1)
FreeButLast == SubSeq(Free, 1, Len(Free) - 1)

powerupBody(st, sprite) ==
    IF Rd(st.rom, st.i) = \hFF THEN [st EXCEPT !.i = after3(st.i, TRUE, \hEBB5)]
    ELSE IF InSeq(sprite, Free)
    THEN (IF st.i >= \hE0BD /\ st.i < \hE123
          THEN (IF sprite # \h1F
                THEN Moved(st, after3(st.i, FALSE, \hEBB5),
                           spriteRandomize(RS(st), FreeButLast, st.i))
                ELSE [st EXCEPT !.i = after3(st.i, FALSE, \hEBB5)])
          ELSE Moved(st, after3(st.i, FALSE, \hEBB5),
                     spriteRandomize(RS(st), IF sprite = \h1F THEN Free ELSE FreeButLast,
                                     st.i)))
    ELSE IF InSeq(sprite, Block)
    THEN Moved(st, after3(st.i, FALSE, \hEBB5), spriteRandomize(RS(st), Block, st.i))
    ELSE [st EXCEPT !.i = after3(st.i, FALSE, \hEBB5)]

powerupStep(st) ==
    IF st.i >= \hEBB5 THEN [st EXCEPT !.i = Fin]
    ELSE powerupBody(st, spriteExtract(Rd(st.rom, st.i), Rd(st.rom, st.i + 1)))

RECURSIVE powerupLoop(_,_)
powerupLoop(n, st) ==
    IF n <= 0 \/ st.i = Fin THEN st
    ELSE IF n = 1 THEN powerupStep(st)
    ELSE LET mid == powerupLoop(n \div 2, st)
         IN IF mid.i = Fin THEN mid ELSE powerupLoop(n - (n \div 2), mid)

PowerupChoices == <<\h1B, \h1C, \h1D, \h1F>>
PowerupOffsets == <<\hA9A9, \hACA7>>

\* offsets.forEach(offset => this.#rom[offset] = table[this.#randomInt(table.length)])
pickStep(st) ==
    IF st.i > Len(st.offs) THEN [st EXCEPT !.i = Fin]
    ELSE LET d == randomInt(st.seed, Len(st.table))
         IN [st EXCEPT !.i = IF st.i < Len(st.offs) THEN st.i + 1 ELSE Fin,
                       !.rom = Wr(st.rom, st.offs[st.i], st.table[d.val + 1]),
                       !.seed = d.seed]

RECURSIVE pickLoop(_,_)
pickLoop(n, st) ==
    IF n <= 0 \/ st.i = Fin THEN st
    ELSE IF n = 1 THEN pickStep(st)
    ELSE LET mid == pickLoop(n \div 2, st)
         IN IF mid.i = Fin THEN mid ELSE pickLoop(n - (n \div 2), mid)

pickAll(st, offs, table) ==
    RS(pickLoop(Len(offs),
                [i |-> 1, offs |-> offs, table |-> table, rom |-> st.rom, seed |-> st.seed]))

randomizePowerups(st) ==
    pickAll(powerupLoop(\hEBB5 - \hE077, At(\hE077, st)), PowerupOffsets, PowerupChoices)

\* {platforms, start, end}
PlatformLevels ==
    <<<<(<<\h28, \h29, \h2A, \h2B, \h2D, \h2E>>), \hE1EF, \hE249>>,
      <<(<<\h38, \h3D>>), \hE24A, \hE2A1>>,
      <<(<<\h60, \h61, \h67>>), \hE99E, \hEA2E>>>>

\* for (i = 0xE9A3; i < 0xE9CE; i += 3)
\*     this.#rom[i] = (this.#rom[i] === 0x5E ? 0x57 : 0x38) + this.#randomInt(8)
platformStep(st) ==
    IF st.i >= \hE9CE THEN [st EXCEPT !.i = Fin]
    ELSE LET base == IF Rd(st.rom, st.i) = \h5E THEN \h57 ELSE \h38
             d == randomInt(st.seed, 8)
         IN [i |-> IF st.i + 3 < \hE9CE THEN st.i + 3 ELSE Fin,
             rom |-> Wr(st.rom, st.i, base + d.val),
             seed |-> d.seed]

RECURSIVE platformLoop(_,_)
platformLoop(n, st) ==
    IF n <= 0 \/ st.i = Fin THEN st
    ELSE IF n = 1 THEN platformStep(st)
    ELSE LET mid == platformLoop(n \div 2, st)
         IN IF mid.i = Fin THEN mid ELSE platformLoop(n - (n \div 2), mid)

randomizePlatforms(st) ==
    RS(platformLoop((\hE9CE - \hE9A3 + 2) \div 3, At(\hE9A3, scanLevels(st, PlatformLevels))))

\* const v = this.#version === 0 ? 0 : 3
Shift(ver) == IF ver = 0 THEN 0 ELSE 3

\* a ? x : b ? y : z with a = (randomFloat() < pa), b = (randomFloat() < pb && okb):
\* the second draw is made only when the first comparison fails
twoDraws(s, pa, x, pb, okb, y, z) ==
    LET f1 == randomFloat(s)
        f2 == randomFloat(f1)
    IN IF Below(f1, pa) THEN [val |-> x, seed |-> f1]
       ELSE [val |-> IF Below(f2, pb) /\ okb THEN y ELSE z, seed |-> f2]

gravityStep(st) ==
    IF st.i > \h1FB0 + st.v THEN [st EXCEPT !.i = Fin]
    ELSE LET i == st.i
             nxt == IF i + 1 <= \h1FB0 + st.v THEN i + 1 ELSE Fin
             b == Rd(st.rom, i)
         IN IF i = \h1F98 + st.v \/ i = \h1FA6 + st.v THEN [st EXCEPT !.i = nxt]
            ELSE IF b \notin {\h00, \h01, \h08} THEN [st EXCEPT !.i = nxt]
            ELSE LET d == CASE b = \h00 ->
                               twoDraws(st.seed, 5, \h01, 10, i # \h1F99 + st.v, \h08, \h00)
                            [] b = \h01 -> twoDraws(st.seed, 10, \h00, 30, TRUE, \h08, \h01)
                            [] b = \h08 -> twoDraws(st.seed, 30, \h00, 5, TRUE, \h01, \h08)
                 IN [st EXCEPT !.i = nxt, !.rom = Wr(st.rom, i, d.val), !.seed = d.seed]

RECURSIVE gravityLoop(_,_)
gravityLoop(n, st) ==
    IF n <= 0 \/ st.i = Fin THEN st
    ELSE IF n = 1 THEN gravityStep(st)
    ELSE LET mid == gravityLoop(n \div 2, st)
         IN IF mid.i = Fin THEN mid ELSE gravityLoop(n - (n \div 2), mid)

randomizeGravity(st, ver) ==
    RS(gravityLoop(\h1FB0 - \h1F91 + 1,
                   [i |-> \h1F91 + Shift(ver), v |-> Shift(ver), rom |-> st.rom,
                    seed |-> st.seed]))

ScrollLevels ==
    <<\h1F71, \h1F72, \h1F73, \h1F74, \h1F76, \h1F79, \h1F7A, \h1F7B, \h1F7C, \h1F7D,
      \h1F7E, \h1F7F, \h1F81, \h1F82, \h1F83, \h1F84, \h1F85, \h1F88, \h1F8A, \h1F8F,
      \h1F90>>

scrollStep(st) ==
    IF st.i > Len(ScrollLevels) THEN [st EXCEPT !.i = Fin]
    ELSE LET o == ScrollLevels[st.i] + st.v
             nxt == IF st.i < Len(ScrollLevels) THEN st.i + 1 ELSE Fin
             b == Rd(st.rom, o)
             f == randomFloat(st.seed)
         IN IF b = \h00
            THEN [st EXCEPT !.i = nxt, !.seed = f,
                            !.rom = IF Below(f, 8) THEN Wr(st.rom, o, \h01) ELSE st.rom]
            ELSE IF b = \h01
            THEN [st EXCEPT !.i = nxt, !.seed = f,
                            !.rom = IF Below(f, 25) THEN Wr(st.rom, o, \h00) ELSE st.rom]
            ELSE [st EXCEPT !.i = nxt]

RECURSIVE scrollLoop(_,_)
scrollLoop(n, st) ==
    IF n <= 0 \/ st.i = Fin THEN st
    ELSE IF n = 1 THEN scrollStep(st)
    ELSE LET mid == scrollLoop(n \div 2, st)
         IN IF mid.i = Fin THEN mid ELSE scrollLoop(n - (n \div 2), mid)

\* a scrolling pass without the rule for level 12
level12Skipped(st, v) == st

\* if level 12 is scrolling...
level12(st, v) ==
    IF Rd(st.rom, \h1F83 + v) = \h01
    THEN (IF Rd(st.rom, \h1FA3 + v) = \h08
          THEN [st EXCEPT !.rom = Wr(st.rom, \h1F83 + v, \h00)]
          ELSE [st EXCEPT !.rom = spriteCopy(st.rom, spriteInsert(\hE7A6, \hE7A7, \h1F),
                                             \hE7A6)])
    ELSE st

randomizeScrolling(st, ver) ==
    level12(RS(scrollLoop(Len(ScrollLevels),
                          [i |-> 1, v |-> Shift(ver), rom |-> st.rom, seed |-> st.seed])),
            Shift(ver))

FastLevels == <<\h00, \h05, \h09, \h0B, \h0D, \h10, \h13, \h17, \h19, \h1F>>

fastStep(st) ==
    IF st.i > Len(st.levels) THEN [st EXCEPT !.i = Fin]
    ELSE LET level == st.levels[st.i]
             nxt == IF st.i < Len(st.levels) THEN st.i + 1 ELSE Fin
             f == randomFloat(st.seed)
         IN IF Rd(st.rom, \h1F71 + st.v + level) # \h01 THEN [st EXCEPT !.i = nxt]
            ELSE IF st.all THEN [st EXCEPT !.i = nxt,
                                           !.rom = Wr(st.rom, st.start + level, \h02)]
            ELSE [st EXCEPT !.i = nxt, !.seed = f,
                            !.rom = IF Below(f, 40) THEN Wr(st.rom, st.start + level, \h02)
                                    ELSE st.rom]

RECURSIVE fastLoop(_,_)
fastLoop(n, st) ==
    IF n <= 0 \/ st.i = Fin THEN st
    ELSE IF n = 1 THEN fastStep(st)
    ELSE LET mid == fastLoop(n \div 2, st)
         IN IF mid.i = Fin THEN mid ELSE fastLoop(n - (n \div 2), mid)

\* levels.push(0x11), levels.push(0x0C)
fastLevels(r, v) ==
    (IF Rd(r, \h1FA2 + v) # \h08 THEN Append(FastLevels, \h11) ELSE FastLevels)
    \o (IF Rd(r, \h3C218) # \h0C THEN <<\h0C>> ELSE <<>>)

fastScrolling(st, all, ver) ==
    RS(fastLoop(Len(FastLevels) + 2,
                [i |-> 1, levels |-> fastLevels(st.rom, Shift(ver)), all |-> all,
                 v |-> Shift(ver),
                 start |-> IF Rd(st.rom, \h148) = \h05 THEN \h93D40 ELSE \h33040,
                 rom |-> st.rom, seed |-> st.seed]))

iceStep(st) ==
    IF st.i >= \h20 THEN [st EXCEPT !.i = Fin]
    ELSE LET f == randomFloat(st.seed)
             base == IF Rd(st.rom, \h148) = \h05 THEN \h93D20 ELSE \h33020
         IN [i |-> IF st.i + 1 < \h20 THEN st.i + 1 ELSE Fin,
             rom |-> IF Below(f, 10) THEN Wr(st.rom, base + st.i, \h00) ELSE st.rom,
             seed |-> f]

RECURSIVE iceLoop(_,_)
iceLoop(n, st) ==
    IF n <= 0 \/ st.i = Fin THEN st
    ELSE IF n = 1 THEN iceStep(st)
    ELSE LET mid == iceLoop(n \div 2, st)
         IN IF mid.i = Fin THEN mid ELSE iceLoop(n - (n \div 2), mid)

randomizeIcePhysics(st) == RS(iceLoop(\h20, At(0, st)))

\* this.#rom[(dx ? 0x93D00 : 0x33000) + i] = 0x04; this.#rom[(dx ? 0x93D20 : 0x33020) + i] = 0x03
luigi(r, i) ==
    IF Rd(r, \h148) = \h05 THEN Wr(Wr(r, \h93D00 + i, \h04), \h93D20 + i, \h03)
    ELSE Wr(Wr(r, \h33000 + i, \h04), \h33020 + i, \h03)

\* mario only for DX, on st after the first if of the body; f is the next float
marioOnly(st, all, i, f) ==
    IF ~all /\ Rd(st.rom, \h148) = \h05 /\ Rd(st.rom, \h93D00 + i) = \hFF
    THEN [rom |-> IF Below(f, 15) THEN Wr(Wr(st.rom, \h93D00 + i, \h00), \h93D20 + i, \h04)
                  ELSE st.rom,
          seed |-> f]
    ELSE st

\* the first if of the body; f is the next float
luigiDraw(st, all, i, f) ==
    IF all THEN [rom |-> luigi(st.rom, i), seed |-> st.seed]
    ELSE [rom |-> IF Below(f, 15) THEN luigi(st.rom, i) ELSE st.rom, seed |-> f]

afterLuigi(st, all, i) == marioOnly(st, all, i, randomFloat(st.seed))

luigiStep(st) ==
    IF st.i >= \h20 THEN [st EXCEPT !.i = Fin]
    ELSE Moved(st, IF st.i + 1 < \h20 THEN st.i + 1 ELSE Fin,
               afterLuigi(luigiDraw(RS(st), st.all, st.i, randomFloat(st.seed)), st.all, st.i))

RECURSIVE luigiLoop(_,_)
luigiLoop(n, st) ==
    IF n <= 0 \/ st.i = Fin THEN st
    ELSE IF n = 1 THEN luigiStep(st)
    ELSE LET mid == luigiLoop(n \div 2, st)
         IN IF mid.i = Fin THEN mid ELSE luigiLoop(n - (n \div 2), mid)

randomizeLuigiPhysics(st, all) ==
    RS(luigiLoop(\h20, [i |-> 0, all |-> all, rom |-> st.rom, seed |-> st.seed]))

OverworldMusic ==
    <<\h3004F, \h3EA9B, \h3D186, \h3D52B, \h3D401, \h3D297, \h3D840, \h3D694, \h3D758>>
OverworldTracks == <<\h05, \h06, \h0E, \h10, \h12, \h1B, \h1C, \h1E>>
LevelTracks == <<\h01, \h0B, \h11, \h13, \h14, \h17, \h1D, \h1F, \h28>>

\* for (i = 0x5619; i <= 0x5885; i += 0x14)
musicStep(st) ==
    IF st.i > \h5885 THEN [st EXCEPT !.i = Fin]
    ELSE LET d == randomInt(st.seed, Len(LevelTracks))
             nxt == IF st.i + \h14 <= \h5885 THEN st.i + \h14 ELSE Fin
         IN IF st.star THEN [st EXCEPT !.i = nxt, !.rom = Wr(st.rom, st.i, \h1D)]
            ELSE [st EXCEPT !.i = nxt, !.rom = Wr(st.rom, st.i, LevelTracks[d.val + 1]),
                            !.seed = d.seed]

RECURSIVE musicLoop(_,_)
musicLoop(n, st) ==
    IF n <= 0 \/ st.i = Fin THEN st
    ELSE IF n = 1 THEN musicStep(st)
    ELSE LET mid == musicLoop(n \div 2, st)
         IN IF mid.i = Fin THEN mid ELSE musicLoop(n - (n \div 2), mid)

\* levels: f is the float compared with 0.02 (all star song)
levelMusic(st, f) ==
    RS(musicLoop((\h5885 - \h5619) \div \h14 + 1,
                 [i |-> \h5619, star |-> Below(f, 2),
                  rom |-> IF Below(f, 2) THEN Wr(st.rom, \h3004F, \h1D) ELSE st.rom,
                  seed |-> f]))

overworldMusic(st) == pickAll(st, OverworldMusic, OverworldTracks)

levelMusicOf(st) == levelMusic(st, randomFloat(st.seed))

randomizeMusic(st) == levelMusicOf(overworldMusic(st))

FastMusic ==
    <<\h1205C, \h1251F, \h12B45, \h12CF2, \h12E9B, \h131A6, \h13879, \h13A38, \h13EC6>>

fastMusicStep(st) ==
    IF st.i > Len(FastMusic) THEN [st EXCEPT !.i = Fin]
    ELSE LET offset == FastMusic[st.i]
             f == randomFloat(st.seed)
             r1 == Wr(st.rom, offset, Rd(st.rom, offset) + \h04)
         IN [i |-> IF st.i < Len(FastMusic) THEN st.i + 1 ELSE Fin,
             rom |-> IF Below(f, 30) THEN Wr(r1, offset + \h01, Rd(r1, offset + \h03))
                     ELSE st.rom,
             seed |-> f]

RECURSIVE fastMusicLoop(_,_)
fastMusicLoop(n, st) ==
    IF n <= 0 \/ st.i = Fin THEN st
    ELSE IF n = 1 THEN fastMusicStep(st)
    ELSE LET mid == fastMusicLoop(n \div 2, st)
         IN IF mid.i = Fin THEN mid ELSE fastMusicLoop(n - (n \div 2), mid)

randomizeFastMusic(st) == RS(fastMusicLoop(Len(FastMusic), At(1, st)))

(***************************************************************************)
(* Text.                                                                   *)
(***************************************************************************)
\* n.toString(16) for 0 <= n < 2^24, as the sequence of its digits' values
RECURSIVE hexDigits(_)
hexDigits(n) == IF n < 16 THEN <<n>> ELSE Append(hexDigits(n \div 16), n % 16)

\* the last k items of a
lastOf(a, k) == SubSeq(a, Len(a) - k + 1, Len(a))

\* getSeed(): this.#initialSeed.toString(16).toUpperCase()
getSeed(s) ==
    IF s.hi = 0 THEN hexDigits(s.lo)
    ELSE hexDigits(s.hi) \o lastOf(<<0, 0, 0>> \o hexDigits(s.lo), 4)

\* getFlags(): ('000000' + this.#flags.toString(16)).slice(-6).toUpperCase()
getFlags(f) == lastOf(<<0, 0, 0, 0, 0, 0>> \o hexDigits(f), 6)

\* text.ascii: the byte of an upper-case hex digit
asciiByte(d) == IF d < 10 THEN \h2B + d ELSE \h35 + (d - 10)

asciiBytes(digits) == [k \in 1..Len(digits) |-> asciiByte(digits[k])]

RandomizerText == <<\h46, \h35, \h42, \h38, \h43, \h41, \h3D, \h4E, \h39, \h46>>

\* the offsets from, from + 1, ... for n items
run(from, n) == [k \in 1..n |-> from + k - 1]

customFileSelectScreen(r, s0, f) ==
    LET r1 == writeAll(r, run(\h30A99, Len(RandomizerText)), RandomizerText)
        sd == asciiBytes(getSeed(s0))
        r2 == writeAll(r1, run(\h30AD8, Len(sd)), sd)
        fl == asciiBytes(getFlags(f))
    IN writeAll(r2, run(\h30AF9, Len(fl)), fl)

\* text.sentences: each line stands for a string, as its character codes
Quotes == <<<<(<<\h41>>), <<\h42>>>>, <<(<<\h43>>), <<\h44, \h45>>>>>>
Facts ==
    <<<<(<<\h61>>), <<\h62>>, <<\h63>>>>, <<(<<\h64>>), <<\h65>>, <<\h66>>>>,
      <<(<<\h67>>), <<\h68>>, <<\h69>>>>, <<(<<\h6A>>), <<\h6B>>, <<\h6C>>>>>>
Songs ==
    <<<<(<<\h31>>), <<\h32>>, <<\h33>>, <<\h34>>, <<\h35>>, <<\h36>>, <<\h37>>, <<\h38>>>>,
      <<(<<\h51>>), <<\h52>>, <<\h53>>, <<\h54>>, <<\h55>>, <<\h56>>, <<\h57>>, <<\h58>>>>>>
\* {offset, line}
Other == <<<<\h69D00, <<\h54, \h48>>>>, <<\h69D20, <<\h58>>>>>>

QuoteOffsets == <<\h696CF, \h696E3>>
FactOffsets ==
    <<<<\h69ADC, \h69AF0, \h69B04>>, <<\h69B19, \h69B2D, \h69B41>>,
      <<\h69B56, \h69B6A, \h69B7E>>>>
SongOffsets == <<\h69C37, \h69C4C, \h69C61, \h69C76, \h69C8B, \h69CA0, \h69CB5, \h69CCA>>

\* offsets.forEach((offset, index) => writeSentence(offset, lines[index]))
sentenceStep(st) ==
    IF st.i > Len(st.offs) THEN [st EXCEPT !.i = Fin]
    ELSE LET line == st.lines[st.i]
         IN [st EXCEPT !.i = IF st.i < Len(st.offs) THEN st.i + 1 ELSE Fin,
                       !.rom = writeAll(st.rom, run(st.offs[st.i], Len(line)), line)]

RECURSIVE sentenceLoop(_,_)
sentenceLoop(n, st) ==
    IF n <= 0 \/ st.i = Fin THEN st
    ELSE IF n = 1 THEN sentenceStep(st)
    ELSE LET mid == sentenceLoop(n \div 2, st)
         IN IF mid.i = Fin THEN mid ELSE sentenceLoop(n - (n \div 2), mid)

writeSentences(r, offs, lines) ==
    sentenceLoop(Len(offs), [i |-> 1, rom |-> r, offs |-> offs, lines |-> lines]).rom

\* quotes
creditsQuote(r, q) == [rom |-> writeSentences(r, QuoteOffsets, Quotes[q.val + 1]), seed |-> q.seed]

\* facts: shuffled, the first three written
creditsFacts(r, fs) ==
    [rom |-> writeSentences(writeSentences(writeSentences(r, FactOffsets[1], fs.a[1]),
                                           FactOffsets[2], fs.a[2]),
                            FactOffsets[3], fs.a[3]),
     seed |-> fs.seed]

\* song
creditsSong(r, sg) == [rom |-> writeSentences(r, SongOffsets, Songs[sg.val + 1]), seed |-> sg.seed]

\* rest
creditsOther(st) ==
    [st EXCEPT !.rom = writeSentences(st.rom, [k \in 1..Len(Other) |-> Other[k][1]],
                                      [k \in 1..Len(Other) |-> Other[k][2]])]

quoteOf(st) == creditsQuote(st.rom, randomInt(st.seed, Len(Quotes)))
factsOf(st) == creditsFacts(st.rom, shuffle(Facts, st.seed))
songOf(st) == creditsSong(st.rom, randomInt(st.seed, Len(Songs)))

credits(st) == creditsOther(songOf(factsOf(quoteOf(st))))

(***************************************************************************)
(* The integrity finalizer.                                                *)
(***************************************************************************)
\* the sum of the bytes of r at the offsets in offs, whose bytes lie in vlo..vhi
RECURSIVE sumBytes(_,_,_,_)
sumBytes(r, offs, vlo, vhi) ==
    IF offs = {} THEN 0
    ELSE IF vlo = vhi THEN vlo * Cardinality(offs)
    ELSE LET mid == (vlo + vhi) \div 2
         IN sumBytes(r, {o \in offs : r[o] <= mid}, vlo, mid)
            + sumBytes(r, {o \in offs : r[o] > mid}, mid + 1, vhi)

\* the sum of the bytes of r at the offsets lo..hi
sumRange(r, lo, hi) == sumBytes(r, {o \in DOMAIN r : o >= lo /\ o <= hi}, 1, 255)

checksum(r) ==
    LET e == IF Rd(r, \h148) = \h05 THEN \hFFFFF ELSE \h7FFFF
        csum == sumRange(r, \h00, \h14D) + sumRange(r, \h150, e)
        r1 == Wr(Wr(r, \h14E, And(Shr(csum, 8), \hFF)), \h14F, And(csum, \hFF))
        comp == sumRange(r1, \h134, \h14C) + 25
    IN Wr(r1, \h14D, 0 - And(comp, \hFF))

Title == <<\h4D, \h41, \h52, \h49, \h4F, \h4C, \h41, \h4E, \h44, \h32, \h00>>

authenticate(r) ==
    LET count == 11 - Cardinality({k \in 1..Len(Title) : Rd(r, \h134 + k - 1) = Title[k]})
    IN count = 0 /\ Rd(r, \h148) # \h05

(***************************************************************************)
(* The patch engine (PatchROM.js) and the patch resources.  A resource is  *)
(* the sequence of its records: a literal record <<offset, bytes>> or a    *)
(* run-length record <<offset, count, fill>>.                              *)
(***************************************************************************)
patchStep(st) ==
    IF st.i > Len(st.recs) THEN [st EXCEPT !.i = Fin]
    ELSE LET rec == st.recs[st.i]
             off == rec[1]
             data == IF Len(rec) = 2 THEN rec[2] ELSE [k \in 1..rec[2] |-> rec[3]]
         IN [st EXCEPT !.i = IF st.i < Len(st.recs) THEN st.i + 1 ELSE Fin,
                       !.rom = writeAll(st.rom, run(off, Len(data)), data)]

RECURSIVE patchLoop(_,_)
patchLoop(n, st) ==
    IF n <= 0 \/ st.i = Fin THEN st
    ELSE IF n = 1 THEN patchStep(st)
    ELSE LET mid == patchLoop(n \div 2, st)
         IN IF mid.i = Fin THEN mid ELSE patchLoop(n - (n \div 2), mid)

PatchROM(r, recs) ==
    IF Len(recs) = 0 THEN r
    ELSE patchLoop(Len(recs), [i |-> 1, rom |-> r, recs |-> recs]).rom

\* the header bytes 0x134..0x14C of the model's images, by sub-version and DX
HeaderBytes(ver, dx) ==
    Title \o <<0, 0, 0, 0, IF dx THEN \h80 ELSE 0, 0, 0, 0, \h03,
               IF dx THEN \h05 ELSE \h04, \h02, 0, \h01, ver>>

RECURSIVE sumSeq(_,_,_)
sumSeq(a, lo, hi) ==
    IF lo > hi THEN 0
    ELSE IF lo = hi THEN a[lo]
    ELSE LET mid == (lo + hi) \div 2 IN sumSeq(a, lo, mid) + sumSeq(a, mid + 1, hi)

HeaderComp(ver, dx) ==
    LET h == HeaderBytes(ver, dx) IN U8(0 - (sumSeq(h, 1, Len(h)) + 25))

BasePatch(ver) ==
    <<<<\h3FF00 + ver, <<\hC3, \h50, \h01>>>>, <<\h3FF10, 3, \hEA>>>>

DxPatch(ver) ==
    <<<<\h143, <<\h80>>>>, <<\h148, <<\h05>>>>, <<\h14D, <<HeaderComp(ver, TRUE)>>>>,
      <<\h93D00, 2, \hFF>>>>

\* readFile(patches/<name>.ips)
PatchFile(name) ==
    CASE name = "base" -> BasePatch(0)
      [] name = "base_v2" -> BasePatch(2)
      [] name = "base_dx" -> BasePatch(0) \o DxPatch(0)
      [] name = "base_dx_v2" -> BasePatch(2) \o DxPatch(2)
      [] name = "slots" -> <<<<\h3F3B0, <<\h3E, \h01>>>>>>
      [] name = "slots_dx" -> <<<<\h3F3B2, <<\h3E, \h02>>>>, <<\h3F3C0, 2, \h76>>>>

baseName(f, ver) ==
    LET dx == IF And(f, \b010000000000000000000000) > 0 THEN "_dx" ELSE ""
        v2 == IF ver = 2 THEN "_v2" ELSE ""
    IN IF dx = "" THEN (IF v2 = "" THEN "base" ELSE "base_v2")
       ELSE (IF v2 = "" THEN "base_dx" ELSE "base_dx_v2")

slotsName(r) == IF Rd(r, \h148) = \h05 THEN "slots_dx" ELSE "slots"

(***************************************************************************)
(* Input images.  An image holds the header, the level and boss tables,    *)
(* the dual exits, a few entities in the entity table and the per-level    *)
(* tables the passes read.                                                 *)
(***************************************************************************)
\* entities of the image: <<offset, id, low bits of a, low bits of b, third byte>>
Entities ==
    <<<<\hE077, \h01, \h05, \h13, \h10>>, <<\hE07A, \h1B, \h02, \h01, \h20>>,
      <<\hE07E, \h08, \h0A, \h1F, \h30>>, <<\hE081, \h0C, \h00, \h10, \h40>>,
      <<\hE084, \h11, \h07, \h07, \h50>>, <<\hE0BD, \h1F, \h01, \h02, \h11>>,
      <<\hE0C0, \h1C, \h03, \h04, \h12>>, <<\hE1EF, \h28, \h0F, \h00, \h13>>,
      <<\hE1F2, \h33, \h04, \h1E, \h14>>, <<\hE2A2, \h4E, \h06, \h06, \h15>>,
      <<\hE2A5, \h4D, \h08, \h09, \h16>>, <<\hE77C, \h58, \h09, \h0A, \h17>>,
      <<\hE7A6, \h10, \h03, \h05, \h18>>, <<\hE99E, \h68, \h0B, \h0C, \h19>>,
      <<\hE9A1, \h60, \h0C, \h0D, \h5E>>, <<\hEB55, \h09, \h0D, \h0E, \h1A>>>>

entityByte(e, k) ==
    IF k = 2 THEN e[5] ELSE spriteInsert(e[3], e[4], e[2])[k + 1]

EntityOffsets == [k \in 1..(3 * Len(Entities)) |-> Entities[(k - 1) \div 3 + 1][1] + ((k - 1) % 3)]
EntityBytes == [k \in 1..(3 * Len(Entities)) |-> entityByte(Entities[(k - 1) \div 3 + 1], (k - 1) % 3)]

\* <<offset relative to the version shift, byte>>: scrolling and gravity tables
LevelTables == <<<<\h1F71, \h01>>, <<\h1F76, \h01>>, <<\h1F83, \h01>>, <<\h1F92, \h01>>,
                 <<\h1FA2, \h08>>, <<\h1FA4, \h08>>>>

\* <<offset, byte>>: the rest of the image
OtherBytes ==
    <<<<\h14E, \h12>>, <<\h14F, \h34>>, <<\h3C232, \h11>>, <<\hE07D, \hFF>>,
      <<\hE9D6, \h34>>, <<\hE9DF, \h34>>, <<\h33020, \h02>>, <<\h33022, \h02>>,
      <<\h1205C, \h10>>, <<\h1205F, \h20>>, <<\h12B45, \h30>>, <<\h12B48, \h40>>,
      <<\h30388, \h01>>, <<\h3004F, \h05>>, <<\h7FFFF, \h5A>>>>

\* the image of sub-version ver; moon: level 12 has moon physics;
\* off: what is added to the header complement byte (0: the header is consistent)
Image(ver, moon, off) ==
    LET r1 == writeAll(<<>>, run(\h134, 25), HeaderBytes(ver, FALSE))
        r2 == Wr(r1, \h14D, HeaderComp(ver, FALSE) + off)
        r3 == writeAll(r2, MainOffsets \o SecretOffsets, MainLevels \o SecretLevels)
        r4 == writeBosses(r3, LevelBossSetOne, LevelBossSetTwo, 0)
        r5 == writeBosses(r4, BossSetOne, BossSetTwo, IF ver = 2 THEN 7 ELSE 0)
        r6 == writeAll(r5, [k \in 1..Len(DualExits) |-> DualExits[k][2]],
                       [k \in 1..Len(DualExits) |-> \h40 + k])
        r7 == writeAll(r6, [k \in 1..Len(DualExits) |-> DualExits[k][3]],
                       [k \in 1..Len(DualExits) |-> \h50 + k])
        r8 == writeAll(r7, EntityOffsets, EntityBytes)
        r9 == writeAll(r8, [k \in 1..Len(LevelTables) |-> LevelTables[k][1] + Shift(ver)],
                       [k \in 1..Len(LevelTables) |-> LevelTables[k][2]])
        r10 == writeAll(r9, [k \in 1..Len(OtherBytes) |-> OtherBytes[k][1]],
                        [k \in 1..Len(OtherBytes) |-> OtherBytes[k][2]])
    IN IF moon THEN Wr(r10, \h1FA3 + Shift(ver), \h08) ELSE r10

Images == {Image(0, TRUE, 0), Image(2, FALSE, 0), Image(0, FALSE, \h11)}

(***************************************************************************)
(* Inputs of the public methods.                                           *)
(***************************************************************************)
Num(n) == [number |-> n]
Named(s) == [settings |-> s]

RandomHalf ==
    {"randomLevelLocations", "randomBossLocations", "randomBossHealth",
     "randomSwapDualExits", "randomBonusGames", "randomEnemies", "randomPowerups",
     "randomPlatforms", "randomGravity", "randomScrollingLevels",
     "randomFastScrolling", "includeIcePhysics", "randomLuigiPhysics", "randomMusic",
     "randomFastMusic", "disableMusic", "disableSoundFX"}

NewSettings ==
    {Num(\h000001), Num(\h000041), Num(\h400040), Num(\h7FFFFF), Named(RandomHalf),
     Num(\h1000000)}

NewSeeds == {S32(\h1000, \h0000), Undefined}
\* Math.floor(Math.random() * (0xFFFFFFFF - 0x10000000 + 1) + 0x10000000)
RandomSeeds == {S32(\hFFFF, \hFFFF), S32(\h3C2A, \h780F)}

SetSeeds == {S32(\h2000, \h0001), S32(\h0FFF, \hFFFF), S32(\h10000, \h0000)}
SetFlagsInputs == {Num(\h000032), Num(0 - 1), Num(\h1000000), Named({"randomGamblingCosts"})}

\* the mask an accepted flags input stands for, before normalization
rawMask(x) == IF IsNumber(x) THEN x.number ELSE rawFlags(x.settings, 1, Len(SettingNames))

(***************************************************************************)
(* The instance: construction and the setters.                             *)
(***************************************************************************)
NoLog ==
    [rom0 |-> <<>>, seed0 |-> S32(0, 0), flags0 |-> 0, sets0 |-> 0, after |-> {},
     patched |-> <<>>, gate |-> 0, mask |-> 0]

\* new Randomizer(image, settings, sd), r being what Math.random() gives
constructor(image, settings, sd, r) ==
    /\ rom = image
    /\ version = Rd(image, \h14C)
    /\ flags = IF IsNumber(settings)
               THEN (IF FlagsInRange(settings.number) THEN sanitizeFlags(settings.number)
                     ELSE 0)
               ELSE flagsGenerator(settings.settings)
    /\ initialSeed = IF SeedInRange(sd) THEN sd ELSE r
    /\ seed = initialSeed
    /\ valid = authenticate(image)
    /\ pc = [p \in Calls |-> "idle"]
    /\ running = 0
    /\ file = [p \in Calls |-> "none"]
    /\ out = [p \in Calls |-> <<>>]
    /\ ran = [p \in Calls |-> <<>>]
    /\ log = [p \in Calls |-> NoLog]
    /\ lastMask = IF IsNumber(settings) /\ ~FlagsInRange(settings.number) THEN 0
                  ELSE rawMask(settings)
    /\ lastOp = <<"new", settings, sd>>
    /\ nsets = 0

Init ==
    /\ \E image \in Images, settings \in NewSettings, sd \in NewSeeds, r \in RandomSeeds :
           constructor(image, settings, sd, r)
    /\ probe = <<>>

\* a setSeed that restarts the generator and forgets to store the seed
setSeedStateOnly(sd) ==
    /\ running = 0
    /\ nsets < MaxSets
    /\ IF SeedInRange(sd) THEN seed' = sd ELSE UNCHANGED seed
    /\ lastOp' = <<"setSeed", sd>>
    /\ nsets' = nsets + 1
    /\ UNCHANGED <<rom, version, flags, initialSeed, valid, pc, running, file, out, ran,
                   log, lastMask, probe>>

setSeed(sd) ==
    /\ running = 0
    /\ nsets < MaxSets
    /\ IF SeedInRange(sd)
       THEN initialSeed' = sd /\ seed' = sd
       ELSE UNCHANGED <<initialSeed, seed>>
    /\ lastOp' = <<"setSeed", sd>>
    /\ nsets' = nsets + 1
    /\ UNCHANGED <<rom, version, flags, valid, pc, running, file, out, ran, log,
                   lastMask, probe>>

setFlags(settings) ==
    /\ running = 0
    /\ nsets < MaxSets
    /\ flags' = IF IsNumber(settings)
                THEN (IF FlagsInRange(settings.number) THEN sanitizeFlags(settings.number)
                      ELSE flags)
                ELSE flagsGenerator(settings.settings)
    /\ lastMask' = IF IsNumber(settings) /\ ~FlagsInRange(settings.number) THEN lastMask
                   ELSE rawMask(settings)
    /\ lastOp' = <<"setFlags", settings>>
    /\ nsets' = nsets + 1
    /\ UNCHANGED <<rom, version, initialSeed, seed, valid, pc, running, file, out, ran,
                   log, probe>>

(***************************************************************************)
(* randomize(): a call p runs from its entry to its first await, and from  *)
(* the settling of an await to the next await or to its return; while it   *)
(* runs it holds the thread.                                               *)
(***************************************************************************)
Finished == {p \in Calls : pc[p] \in {"done", "failed"}}

\* entry: the base patch is named and requested
randomizeCall(p) ==
    /\ running = 0
    /\ pc[p] = "idle"
    /\ \A q \in Calls : q < p => pc[q] # "idle"
    /\ file' = [file EXCEPT ![p] = baseName(flags, version)]
    /\ pc' = [pc EXCEPT ![p] = "awaitBase"]
    /\ log' = [log EXCEPT ![p] = [rom0 |-> rom, seed0 |-> seed, flags0 |-> flags,
                                  sets0 |-> nsets, after |-> Finished, patched |-> rom,
                                  gate |-> flags, mask |-> flags]]
    /\ lastOp' = <<"randomize", p>>
    /\ UNCHANGED <<rom, version, flags, initialSeed, seed, valid, running, out, ran,
                   lastMask, nsets, probe>>

\* the base patch has been read: the buffer is replaced, bit 6 is consulted
baseLoaded(p) ==
    /\ running = 0
    /\ pc[p] = "awaitBase"
    /\ rom' = PatchROM(rom, PatchFile(file[p]))
    /\ IF And(flags, \b000000000000000001000000) > 0
       THEN /\ file' = [file EXCEPT ![p] = slotsName(rom')]
            /\ pc' = [pc EXCEPT ![p] = "awaitSlots"]
            /\ log' = [log EXCEPT ![p].gate = flags]
            /\ UNCHANGED running
       ELSE /\ pc' = [pc EXCEPT ![p] = "levels"]
            /\ log' = [log EXCEPT ![p].gate = flags, ![p].mask = flags, ![p].patched = rom']
            /\ running' = p
            /\ UNCHANGED file
    /\ UNCHANGED <<version, flags, initialSeed, seed, valid, out, ran, lastMask, lastOp,
                   nsets, probe>>

\* the slots patch has been read
slotsLoaded(p) ==
    /\ running = 0
    /\ pc[p] = "awaitSlots"
    /\ rom' = PatchROM(rom, PatchFile(file[p]))
    /\ pc' = [pc EXCEPT ![p] = "gambling"]
    /\ log' = [log EXCEPT ![p].mask = flags, ![p].patched = rom']
    /\ running' = p
    /\ UNCHANGED <<version, flags, initialSeed, seed, valid, file, out, ran, lastMask,
                   lastOp, nsets, probe>>

\* readFile rejects: the call's promise is rejected
readFailed(p) ==
    /\ running = 0
    /\ pc[p] \in {"awaitBase", "awaitSlots"}
    /\ pc' = [pc EXCEPT ![p] = "failed"]
    /\ UNCHANGED <<rom, version, flags, initialSeed, seed, valid, running, file, out,
                   ran, log, lastMask, lastOp, nsets, probe>>

\* the statements of randomize after the awaits, in program order
PassOrder ==
    <<"gambling", "levels", "bosses", "bossHP", "swapRandom", "swapAll", "bonus",
      "enemies", "powerups", "platforms", "gravity", "scrolling", "fastRandom",
      "fastAll", "ice", "luigiRandom", "luigiAll", "music", "fastMusic", "noMusic",
      "noSfx", "fileSelect", "credits", "easyMode", "checksum", "return">>

\* the statement that follows, the finalizer left out
AfterNoFinalizer(name) ==
    LET k == CHOOSE j \in 1..Len(PassOrder) : PassOrder[j] = name
    IN IF PassOrder[k + 1] = "checksum" THEN "return" ELSE PassOrder[k + 1]

After(name) ==
    LET k == CHOOSE j \in 1..Len(PassOrder) : PassOrder[j] = name IN PassOrder[k + 1]

\* (this.#flags & bit) > 0
On(bit) == And(flags, 2 ^ bit) > 0

Now == [rom |-> rom, seed |-> seed]

\* one statement of the pipeline: when its condition holds, the pass runs and
\* leaves the buffer and the generator state w
Pass(p, name, on, w) ==
    /\ running = p
    /\ pc[p] = name
    /\ IF on
       THEN /\ rom' = w.rom
            /\ seed' = w.seed
            /\ ran' = [ran EXCEPT ![p] = Append(@, name)]
       ELSE UNCHANGED <<rom, seed, ran>>
    /\ pc' = [pc EXCEPT ![p] = After(name)]
    /\ UNCHANGED <<version, flags, initialSeed, valid, running, file, out, log,
                   lastMask, lastOp, nsets, probe>>

Gambling(p) == Pass(p, "gambling", TRUE, randomizeGambling(Now))
\* the do/while of #randomizeLevels has to return for the pass to end
Returning(p, name, on, w) == (on => w.returned) /\ Pass(p, name, on, w)
Levels(p) == Returning(p, "levels", On(0), randomizeLevels(Now, flags))
Bosses(p) == Pass(p, "bosses", On(2), randomizeBosses(Now, version))
BossHealth(p) == Pass(p, "bossHP", On(3), randomizeBossHP(Now))
SwapRandom(p) == Pass(p, "swapRandom", On(4), swapDualExits(Now, FALSE))
SwapAll(p) == Pass(p, "swapAll", On(5), swapDualExits(Now, TRUE))
Bonus(p) == Pass(p, "bonus", On(7), randomizeBonus(Now))
Enemies(p) == Pass(p, "enemies", On(8), randomizeEnemies(Now))
Powerups(p) == Pass(p, "powerups", On(9), randomizePowerups(Now))
Platforms(p) == Pass(p, "platforms", On(10), randomizePlatforms(Now))
Gravity(p) == Pass(p, "gravity", On(11), randomizeGravity(Now, version))
Scrolling(p) == Pass(p, "scrolling", On(12), randomizeScrolling(Now, version))
FastRandom(p) == Pass(p, "fastRandom", On(13), fastScrolling(Now, FALSE, version))
FastAll(p) == Pass(p, "fastAll", On(14), fastScrolling(Now, TRUE, version))
Ice(p) == Pass(p, "ice", On(15), randomizeIcePhysics(Now))
LuigiRandom(p) == Pass(p, "luigiRandom", On(16), randomizeLuigiPhysics(Now, FALSE))
LuigiAll(p) == Pass(p, "luigiAll", On(17), randomizeLuigiPhysics(Now, TRUE))
Music(p) == Pass(p, "music", On(18), randomizeMusic(Now))
FastMusicPass(p) == Pass(p, "fastMusic", On(19), randomizeFastMusic(Now))
NoMusic(p) == Pass(p, "noMusic", On(20), [Now EXCEPT !.rom = Wr(rom, \h10047, \hAF)])
NoSfx(p) == Pass(p, "noSfx", On(21), [Now EXCEPT !.rom = Wr(rom, \h100E1, \hAF)])
FileSelect(p) ==
    Pass(p, "fileSelect", TRUE,
         [Now EXCEPT !.rom = customFileSelectScreen(rom, initialSeed, flags)])
Credits(p) == Pass(p, "credits", TRUE, credits(Now))
EasyMode(p) == Pass(p, "easyMode", TRUE, [Now EXCEPT !.rom = Wr(rom, \h30388, \h00)])
Checksum(p) == Pass(p, "checksum", TRUE, [Now EXCEPT !.rom = checksum(rom)])

\* return this.#buffer
Return(p) ==
    /\ running = p
    /\ pc[p] = "return"
    /\ out' = [out EXCEPT ![p] = rom]
    /\ pc' = [pc EXCEPT ![p] = "done"]
    /\ running' = 0
    /\ UNCHANGED <<rom, version, flags, initialSeed, seed, valid, file, ran, log,
                   lastMask, lastOp, nsets, probe>>

Pipeline(p) ==
    \/ Gambling(p) \/ Levels(p) \/ Bosses(p) \/ BossHealth(p) \/ SwapRandom(p)
    \/ SwapAll(p) \/ Bonus(p) \/ Enemies(p) \/ Powerups(p) \/ Platforms(p)
    \/ Gravity(p) \/ Scrolling(p) \/ FastRandom(p) \/ FastAll(p) \/ Ice(p)
    \/ LuigiRandom(p) \/ LuigiAll(p) \/ Music(p) \/ FastMusicPass(p) \/ NoMusic(p)
    \/ NoSfx(p) \/ FileSelect(p) \/ Credits(p) \/ EasyMode(p) \/ Checksum(p)
    \/ Return(p)

Randomize(p) ==
    randomizeCall(p) \/ baseLoaded(p) \/ slotsLoaded(p) \/ readFailed(p) \/ Pipeline(p)

\* one instance, its setters, and the randomize() calls made on it
Next ==
    \/ \E sd \in SetSeeds : setSeed(sd)
    \/ \E settings \in SetFlagsInputs : setFlags(settings)
    \/ \E p \in Calls : Randomize(p)

Spec == Init /\ [][Next]_vars

(***************************************************************************)
(* Parts of the program, for the properties that concern one part.         *)
(***************************************************************************)
\* one randomize() call on a fresh instance
SpecOnce == Init /\ [][Randomize(1)]_vars

\* randomize() calls on one instance, one after the other or overlapping at
\* their awaits, and no setter
InitTwice ==
    /\ \E settings \in {Num(\h000001), Num(\h000041), Num(\h0C0385)} :
           constructor(Image(0, TRUE, 0), settings, S32(\h1000, \h0000), S32(\hFFFF, \hFFFF))
    /\ probe = <<>>

NextTwice == \E p \in Calls : Randomize(p)

SpecTwice == InitTwice /\ [][NextTwice]_vars

\* the setters around one randomize() call
InitSet ==
    /\ constructor(Image(0, TRUE, 0), Num(\h000041), S32(\h1000, \h0000), S32(\hFFFF, \hFFFF))
    /\ probe = <<>>

NextSet ==
    \/ \E sd \in SetSeeds : setSeed(sd)
    \/ \E settings \in SetFlagsInputs : setFlags(settings)
    \/ Randomize(1)

SpecSet == InitSet /\ [][NextSet]_vars

\* the masks: every combination of the bits the normalization reads, alone and
\* with every other bit set
RuleMasks ==
    {b0 + 2 * b1 + 16 * b4 + 32 * b5 + 8192 * b13 + 16384 * b14 + 65536 * b16 + 131072 * b17 :
        b0 \in {0, 1}, b1 \in {0, 1}, b4 \in {0, 1}, b5 \in {0, 1},
        b13 \in {0, 1}, b14 \in {0, 1}, b16 \in {0, 1}, b17 \in {0, 1}}

OtherBits == {0, \hFC9FCC}

NewMasks ==
    {Num(m + o) : m \in RuleMasks, o \in OtherBits}
        \cup {Num(0 - 1), Num(\h1000000), Named(RandomHalf),
              Named({"includeDualLocations", "randomSwapDualExits", "swapAllDualExits"})}

SetMasks ==
    {Num(\h000032), Num(\h036033), Num(\hFC9FCC), Num(\h000000), Num(\hFFFFFF),
     Num(0 - 1), Num(\h1000000), Named({}),
     Named({"includeDualLocations", "randomSwapDualExits", "swapAllDualExits"}),
     Named({"randomFastScrolling", "allFastScrolling", "randomLuigiPhysics",
            "allLuigiPhysics", "patchDX"})}

InitMask ==
    /\ \E settings \in NewMasks :
           constructor(Image(0, TRUE, 0), settings, S32(\h1000, \h0000), S32(\hFFFF, \hFFFF))
    /\ probe = <<>>

NextMask == \E settings \in SetMasks : setFlags(settings)

SpecMask == InitMask /\ [][NextMask]_vars

\* the codec on an identifier and two bytes: every identifier with every first
\* byte, the second byte running through every value along four lines
PairedByte(a, k) == CASE k = 0 -> a [] k = 1 -> 255 - a [] k = 2 -> (a + 85) % 256
                      [] k = 3 -> (a + 170) % 256

CodecInputs ==
    {[id |-> id, a |-> a, b |-> PairedByte(a, k), done |-> FALSE,
      ins |-> <<a, PairedByte(a, k)>>, ext |-> 0] :
        id \in 0..127, a \in 0..255, k \in 0..3}

InitCodec ==
    /\ constructor(Image(0, TRUE, 0), Num(\h000100), S32(\h1000, \h0000), S32(\hFFFF, \hFFFF))
    /\ probe \in CodecInputs

codec ==
    /\ probe.done = FALSE
    /\ probe' = [probe EXCEPT !.done = TRUE,
                              !.ins = spriteInsert(probe.a, probe.b, probe.id),
                              !.ext = spriteExtract(spriteInsert(probe.a, probe.b, probe.id)[1],
                                                    spriteInsert(probe.a, probe.b, probe.id)[2])]
    /\ UNCHANGED <<rom, version, flags, initialSeed, seed, valid, pc, running, file, out,
                   ran, log, lastMask, lastOp, nsets>>

SpecCodec == InitCodec /\ [][codec]_vars

\* the location pass from a range of generator states, with and without the
\* hidden levels
LevelSeeds == {S32(hi, lo) : hi \in \h1000..\h103F, lo \in {\h0000, \h9E37}}

InitLevels ==
    /\ \E settings \in {Num(\h000001), Num(\h000003)}, sd \in LevelSeeds :
           constructor(Image(0, TRUE, 0), settings, sd, S32(\hFFFF, \hFFFF))
    /\ probe = <<>>

NextLevels == randomizeCall(1) \/ baseLoaded(1) \/ Levels(1)

SpecLevels == InitLevels /\ [][NextLevels]_vars

(***************************************************************************)
(* Properties.                                                             *)
(***************************************************************************)
Range(a) == {a[k] : k \in 1..Len(a)}

\* C1: two successive randomize() calls on one instance, the second entered after
\* the first returned and no setter called, return byte-identical buffers.
C1_SameInstanceRepeats ==
    (pc[1] = "done" /\ pc[2] = "done" /\ 1 \in log[2].after /\ log[2].sets0 = nsets)
        => out[2] = out[1]

\* the pairs of bits of which the second wins
ExclusivePairs == {<<4, 5>>, <<13, 14>>, <<16, 17>>}

\* C2: the stored mask is normalized: bit 1 implies bit 0; of bits 4 and 5, 13 and
\* 14, 16 and 17 never both are set and the second wins; every other bit is the bit
\* of the last accepted input; the input {1,4,5} is stored as {0,1,5}.
C2_MaskNormalized ==
    /\ Bit(flags, 1) = 1 => Bit(flags, 0) = 1
    /\ \A pr \in ExclusivePairs :
          /\ Bit(flags, pr[1]) + Bit(flags, pr[2]) < 2
          /\ Bit(flags, pr[2]) = Bit(lastMask, pr[2])
          /\ Bit(flags, pr[1]) = 1 <=> (Bit(lastMask, pr[1]) = 1 /\ Bit(lastMask, pr[2]) = 0)
    /\ Bit(flags, 0) = 1 <=> (Bit(lastMask, 0) = 1 \/ Bit(lastMask, 1) = 1)
    /\ \A k \in (0..23) \ {0, 4, 13, 16} : Bit(flags, k) = Bit(lastMask, k)
    /\ flags < 2 ^ 24
    /\ lastMask = \b110010 => flags = \b100011

C2_Witness ==
    /\ lastOp[1] = "setFlags"
    /\ IsNumber(lastOp[2])
    /\ lastMask = \b110010
    /\ flags = \b100011

\* a setter call whose argument is outside the accepted range
OutOfRange(op) ==
    \/ op[1] = "setSeed" /\ (op[2].hi < \h1000 \/ op[2].hi > \hFFFF)
    \/ op[1] = "setFlags" /\ "number" \in DOMAIN op[2]
          /\ (op[2].number < 0 \/ op[2].number > \hFFFFFF)

\* C3: setSeed with a value outside [0x10000000, 0xFFFFFFFF] and setFlags with a
\* number outside [0, 0xFFFFFF] return normally and leave the stored seed, the
\* generator state and the stored mask as they were.
C3_OutOfRangeIgnored ==
    [][(nsets' = nsets + 1 /\ OutOfRange(lastOp'))
          => (initialSeed' = initialSeed /\ seed' = seed /\ flags' = flags /\ pc' = pc)]_vars

C3_Witness ==
    /\ lastOp[1] = "setSeed"
    /\ OutOfRange(lastOp)
    /\ pc[1] = "done"
    /\ seed # initialSeed

\* C4: extract(insert(a, b, id)) = id, and insert keeps the low 4 bits of a and the
\* low 5 bits of b.
C4_CodecRoundTrip ==
    probe.done =>
        /\ probe.ext = probe.id
        /\ probe.ins[1] \in 0..255 /\ probe.ins[2] \in 0..255
        /\ probe.ins[1] % 16 = probe.a % 16
        /\ probe.ins[2] % 32 = probe.b % 32

C4_Witness ==
    /\ probe.done
    /\ probe.id = 127 /\ probe.a = 0 /\ probe.b = 255
    /\ probe.ins = <<\hF0, \hFF>>
    /\ probe.ext = 127

\* the pool of the location pass under the mask f, and its slots
LevelPool(f) == IF Bit(f, 1) = 1 THEN MainLevels \o SecretLevels ELSE MainLevels
LevelSlots(f) == IF Bit(f, 1) = 1 THEN MainOffsets \o SecretOffsets ELSE MainOffsets

\* C5: the do/while of the location pass returns, the pool it leaves in the level
\* slots is a permutation of its 18 or 25 values, and slot 0x3C218 does not hold 0x1A.
C5_LevelsPermuted ==
    /\ (pc[1] = "levels" /\ running = 1) => randomizeLevels(Now, flags).returned
    /\ pc[1] = "bosses" =>
          /\ Len(LevelPool(flags)) = IF Bit(flags, 1) = 1 THEN 25 ELSE 18
          /\ Cardinality(Range(LevelSlots(flags))) = Len(LevelPool(flags))
          /\ Cardinality(Range(LevelPool(flags))) = Len(LevelPool(flags))
          /\ {Rd(rom, o) : o \in Range(LevelSlots(flags))} = Range(LevelPool(flags))
          /\ Rd(rom, \h3C218) # \h1A

\* the first round of the do/while drew 0x1A into position 0, and the pass ended
C5_Witness ==
    /\ pc[1] = "bosses"
    /\ flags = 1
    /\ shuffle(MainLevels, shuffle(SecretLevels, log[1].seed0).seed).a[1] = \h1A
    /\ Rd(rom, \h3C218) # \h1A

\* the slots the location pass declares: the 25 level slots, the mirror slot, the
\* six boss-arena slots and the six completion-flag slots
LevelAndBossSlots ==
    Range(MainOffsets) \cup Range(SecretOffsets) \cup {\h3C232}
        \cup {LevelBossSetOne[k][1] : k \in 1..Len(LevelBossSetOne)}
        \cup {LevelBossSetTwo[k][2] : k \in 1..Len(LevelBossSetTwo)}

\* where the lines of the credits start, and the slots of their first 20 characters
CreditOffsets ==
    Range(QuoteOffsets) \cup Range(FactOffsets[1]) \cup Range(FactOffsets[2])
        \cup Range(FactOffsets[3]) \cup Range(SongOffsets)
        \cup {Other[k][1] : k \in 1..Len(Other)}

CreditSlots == {o + k : o \in CreditOffsets, k \in 0..19}

\* the slots the unconditional end of randomize writes: the file-select text, the
\* seed and mask digits, the credits, the easy-mode byte and the three checksum bytes
TailSlots ==
    Range(run(\h30A99, 10)) \cup Range(run(\h30AD8, 8)) \cup Range(run(\h30AF9, 6))
        \cup CreditSlots \cup {\h30388} \cup {\h14D, \h14E, \h14F}

\* where the buffer call p returned differs from the image its patches left
Written(p) == Diff(out[p], log[p].patched)

LocationsOnly(p) == pc[p] = "done" /\ log[p].mask = 1

\* C6 as stated: under the mask of bit 0 only, the returned buffer differs from
\* the post-patch image in level and boss slots only.
C6_FrameLevelsOnly ==
    \A p \in Calls : LocationsOnly(p) => Written(p) \subseteq LevelAndBossSlots

\* C6: under the mask of bit 0 only, the returned buffer differs from the post-patch
\* image only in the level and boss slots and in the slots the unconditional end of
\* randomize writes.
C6_FrameWithTail ==
    \A p \in Calls : LocationsOnly(p) => Written(p) \subseteq (LevelAndBossSlots \cup TailSlots)

C6_Witness ==
    /\ LocationsOnly(1)
    /\ Written(1) \cap LevelAndBossSlots # {}
    /\ \h30A99 \in Written(1)
    /\ \h30388 \in Written(1)
    /\ Written(1) \cap CreditSlots # {}

\* the two checksums of the header, over the contents of r
ChecksumValid(r) ==
    LET e == IF Rd(r, \h148) = \h05 THEN \hFFFFF ELSE \h7FFFF
    IN /\ 256 * Rd(r, \h14E) + Rd(r, \h14F)
             = (sumRange(r, \h000, \h14D) + sumRange(r, \h150, e)) % 65536
       /\ Rd(r, \h14D) = (0 - (sumRange(r, \h134, \h14C) + 25)) % 256

\* C7: the buffer randomize returns holds both checksums of its own final contents.
C7_ChecksumValid ==
    \A p \in Calls : pc[p] = "done" => ChecksumValid(out[p])

\* C8: when a patch read fails, the working buffer and the generator state are what
\* they were before the call.
C8_FailureLeavesInstance ==
    \A p \in Calls : pc[p] = "failed" => (rom = log[p].rom0 /\ seed = log[p].seed0)

\* the passes in their declared order, each with the bit that enables it
DeclaredPasses ==
    <<<<"gambling", 6>>, <<"levels", 0>>, <<"bosses", 2>>, <<"bossHP", 3>>,
      <<"swapRandom", 4>>, <<"swapAll", 5>>, <<"bonus", 7>>, <<"enemies", 8>>,
      <<"powerups", 9>>, <<"platforms", 10>>, <<"gravity", 11>>, <<"scrolling", 12>>,
      <<"fastRandom", 13>>, <<"fastAll", 14>>, <<"ice", 15>>, <<"luigiRandom", 16>>,
      <<"luigiAll", 17>>, <<"music", 18>>, <<"fastMusic", 19>>, <<"noMusic", 20>>,
      <<"noSfx", 21>>>>

Unconditional == <<"fileSelect", "credits", "easyMode", "checksum">>

Enabled(d) == Bit(flags, d[2]) = 1

Names(ds) == [k \in 1..Len(ds) |-> ds[k][1]]

\* what a run under the stored mask has to execute, in order
Expected == Names(SelectSeq(DeclaredPasses, Enabled)) \o Unconditional

C10_AwaitsBeforeWrites ==
    \A p \in Calls :
        pc[p] \in {"awaitBase", "awaitSlots"} => (rom = log[p].rom0 /\ seed = log[p].seed0)

\* the seed argument of the constructor and of setSeed, around one randomize() call
InitSeed ==
    /\ \E sd \in {S32(\h1000, \h0000), S32(\hFFFF, \hFFFF), S32(\h0FFF, \hFFFF),
                  S32(\h10000, \h0000), S32(0, 0), Undefined},
          r \in RandomSeeds :
           constructor(Image(0, TRUE, 0), Num(\h000041), sd, r)
    /\ probe = <<>>

NextSeed == (\E sd \in SetSeeds : setSeed(sd)) \/ Randomize(1)

SpecSeed == InitSeed /\ [][NextSeed]_vars

\* the number a sequence of hexadecimal digits stands for
RECURSIVE fromHex(_)
fromHex(ds) ==
    IF Len(ds) = 0 THEN 0 ELSE 16 * fromHex(SubSeq(ds, 1, Len(ds) - 1)) + ds[Len(ds)]

\* a seed argument within [0x10000000, 0xFFFFFFFF]
Accepted(sd) == "hi" \in DOMAIN sd /\ sd.hi >= \h1000 /\ sd.hi <= \hFFFF

\* the string getSeed() returns stands for a number within [0x10000000, 0xFFFFFFFF],
\* the stored seed
SeedReported ==
    LET ds == getSeed(initialSeed)
    IN /\ Len(ds) = 8
       /\ fromHex(SubSeq(ds, 1, 4)) \in \h1000..\hFFFF
       /\ fromHex(SubSeq(ds, 1, 4)) = initialSeed.hi
       /\ fromHex(SubSeq(ds, 5, 8)) = initialSeed.lo
       /\ initialSeed.lo \in 0..\hFFFF

\* C11: the seed getSeed reports is always within [0x10000000, 0xFFFFFFFF]; it is the
\* in-range seed given to the constructor, then the last in-range seed given to
\* setSeed; no other step, a generator draw of randomize included, changes it.
C11_SeedReported ==
    /\ [](SeedReported /\ (lastOp[1] = "new" /\ Accepted(lastOp[3]) => initialSeed = lastOp[3]))
    /\ [][IF nsets' = nsets + 1 /\ lastOp'[1] = "setSeed" /\ Accepted(lastOp'[2])
          THEN initialSeed' = lastOp'[2]
          ELSE initialSeed' = initialSeed]_vars

\* the seed set before the run is still reported after the run has drawn from it
C11_Witness ==
    /\ pc[1] = "done"
    /\ nsets = 1
    /\ initialSeed = S32(\h2000, \h0001)
    /\ seed # initialSeed
    /\ getSeed(initialSeed) = <<2, 0, 0, 0, 0, 0, 0, 1>>

(***************************************************************************)
(* The entity scans on an image whose entity lists hold a 0xFF between     *)
(* entities.                                                               *)
(***************************************************************************)
\* <<offset, id, low bits of a, low bits of b, third byte>>
ScanEntities ==
    <<<<\hE077, \h01, \h05, \h13, \h10>>, <<\hE07A, \h1B, \h02, \h01, \h20>>,
      <<\hE07E, \h08, \h0A, \h1F, \h30>>, <<\hE081, \h0C, \h00, \h10, \h40>>,
      <<\hE084, \h11, \h07, \h07, \h50>>, <<\hE1EF, \h28, \h0F, \h00, \h13>>,
      <<\hE1F2, \h33, \h04, \h1E, \h14>>, <<\hE1F6, \h29, \h06, \h06, \h15>>,
      <<\hE1F9, \h34, \h08, \h09, \h16>>>>

ScanSentinels == {\hE07D, \hE1F5}

ScanImage ==
    LET r1 == writeAll(<<>>, run(\h134, 25), HeaderBytes(0, FALSE))
        r2 == Wr(r1, \h14D, HeaderComp(0, FALSE))
        r3 == writeAll(r2, [k \in 1..(3 * Len(ScanEntities)) |->
                               ScanEntities[(k - 1) \div 3 + 1][1] + ((k - 1) % 3)],
                       [k \in 1..(3 * Len(ScanEntities)) |->
                           entityByte(ScanEntities[(k - 1) \div 3 + 1], (k - 1) % 3)])
    IN Wr(Wr(r3, \hE07D, \hFF), \hE1F5, \hFF)

ScanSeeds == {S32(hi, \h5A5A) : hi \in \h1000..\h100F}

InitScan ==
    /\ \E settings \in {Num(\h000100), Num(\h000200), Num(\h000400)}, sd \in ScanSeeds :
           constructor(ScanImage, settings, sd, S32(\hFFFF, \hFFFF))
    /\ probe = <<>>

\* a call up to the end of the platform pass
NextScan ==
    \/ randomizeCall(1) \/ baseLoaded(1) \/ Levels(1) \/ Bosses(1) \/ BossHealth(1)
    \/ SwapRandom(1) \/ SwapAll(1) \/ Bonus(1) \/ Enemies(1) \/ Powerups(1) \/ Platforms(1)

SpecScan == InitScan /\ [][NextScan]_vars

\* the generator state after n draws from s
RECURSIVE Draws(_,_)
Draws(s, n) == IF n = 0 THEN s ELSE Draws(nextRNG(s), n - 1)

\* the id the two bytes at o hold in r
IdAt(r, o) == spriteExtract(Rd(r, o), Rd(r, o + 1))

\* the entities of the image whose id is in the pool of a region that holds them,
\* counted once for every level of the table
Eligible(levels) ==
    {<<k, e>> \in (1..Len(levels)) \X (1..Len(ScanEntities)) :
        /\ ScanEntities[e][1] >= levels[k][2]
        /\ ScanEntities[e][1] < levels[k][3]
        /\ InSeq(ScanEntities[e][2], levels[k][1])}

\* the draws a pass makes when it visits every entity of the image, those after a
\* 0xFF included: the enemy pass (and its 5 thwomps and its piranha plants), the
\* powerup pass (and its 2 fixed blocks), the platform pass (and its 15 lifts)
ExpectedDraws(f) ==
    CASE f = \h000100 ->
             Cardinality(Eligible(EnemyLevels)) + 5
                 + Cardinality({e \in 1..Len(ScanEntities) : ScanEntities[e][2] \in {\h0C, \h0D}})
      [] f = \h000200 ->
             Cardinality({e \in 1..Len(ScanEntities) :
                             InSeq(ScanEntities[e][2], Free) \/ InSeq(ScanEntities[e][2], Block)}) + 2
      [] f = \h000400 -> Cardinality(Eligible(PlatformLevels)) + 15

\* the regions the scans of the pass enabled by f go through
ScanRegions(f) ==
    CASE f = \h000100 ->
             {<<EnemyLevels[k][2], EnemyLevels[k][3]>> : k \in 1..Len(EnemyLevels)}
                 \cup {<<\hE077, \hEBB5>>}
      [] f = \h000200 -> {<<\hE077, \hEBB5>>}
      [] f = \h000400 ->
             {<<PlatformLevels[k][2], PlatformLevels[k][3]>> : k \in 1..Len(PlatformLevels)}

\* the bytes of a region after the first stride of r that starts with 0xFF
AfterSentinel(r, reg) ==
    LET ff == {i \in reg[1]..(reg[2] - 1) : (i - reg[1]) % 3 = 0 /\ Rd(r, i) = \hFF}
    IN {o \in reg[1]..reg[2] : \E i \in ff : o > i}

ScanDone == pc[1] = "gravity"

ScrollImages ==
    {Image(0, TRUE, 0), Image(0, FALSE, 0), Image(2, TRUE, 0), Image(2, FALSE, 0)}

ScrollMasks == {Num(\h001040), Num(\h001840), Num(\h3FF840)}

ScrollSeeds == {S32(hi, \h1234) : hi \in \h1000..\h100F}

InitScroll ==
    /\ \E image \in ScrollImages, settings \in ScrollMasks, sd \in ScrollSeeds :
           constructor(image, settings, sd, S32(\hFFFF, \hFFFF))
    /\ probe = <<>>

SpecScroll == InitScroll /\ [][Randomize(1)]_vars

\* the scrolling pass has just ended and left level 12 scrolling
Level12Scrolls == pc[1] = "fastRandom" /\ Rd(rom, \h1F83 + Shift(version)) = \h01

\* C13: when the scrolling pass leaves level 12 scrolling, the entity at 0xE7A6 decodes
\* to 0x1F and the low 4 bits of 0xE7A6 and the low 5 bits of 0xE7A7 are those of the
\* bytes the buffer held.
C13_CheckpointReplaced ==
    Level12Scrolls =>
        /\ IdAt(rom, \hE7A6) = \h1F
        /\ Rd(rom, \hE7A6) % 16 = Rd(log[1].patched, \hE7A6) % 16
        /\ Rd(rom, \hE7A7) % 32 = Rd(log[1].patched, \hE7A7) % 32

\* what the pass leaves at 0xE7A6 and 0xE7A7: the id 0x1F on the low bits of the offsets
C13_OffsetBits ==
    Level12Scrolls =>
        /\ IdAt(rom, \hE7A6) = \h1F
        /\ Rd(rom, \hE7A6) = \h66
        /\ Rd(rom, \hE7A7) = \hE7

\* C14: in the finished image of a run with bit 12 set, the scrolling byte of level 12
\* is never 0x01 while its gravity byte is 0x08.
C14_NoScrollingOnMoon ==
    pc[1] = "done" /\ On(12) =>
        ~(Rd(out[1], \h1F83 + Shift(version)) = \h01
            /\ Rd(out[1], \h1FA3 + Shift(version)) = \h08)

\* the gravity pass gave level 12 moon physics and the image ends without scrolling
C14_Witness ==
    /\ pc[1] = "done"
    /\ On(11) /\ On(12)
    /\ Rd(log[1].patched, \h1FA3 + Shift(version)) # \h08
    /\ Rd(log[1].patched, \h1F83 + Shift(version)) = \h01
    /\ Rd(out[1], \h1FA3 + Shift(version)) = \h08
    /\ Rd(out[1], \h1F83 + Shift(version)) = \h00

\* the image came with moon physics, no gravity pass ran
C14_MoonKept ==
    /\ pc[1] = "done"
    /\ ~On(11) /\ On(12)
    /\ Rd(out[1], \h1FA3 + Shift(version)) = \h08
    /\ Rd(out[1], \h1F83 + Shift(version)) = \h00

(***************************************************************************)
(* The swap of all dual exits, for the levels slot 0x3C24A can hold.       *)
(***************************************************************************)
ExitImages ==
    {Wr(Image(0, TRUE, 0), \h3C24A, b) :
        b \in {\h02, \h11, \h12, \h14, \h07, \h08, \h0F, \h0C, \h00}}

ExitSeeds == {S32(hi, \h0F0F) : hi \in \h1000..\h1003}

InitExits ==
    /\ \E image \in ExitImages, settings \in {Num(\h000020), Num(\h000023)},
          sd \in ExitSeeds :
           constructor(image, settings, sd, S32(\hFFFF, \hFFFF))
    /\ probe = <<>>

\* a call up to the end of the swap of all exits
NextExits ==
    \/ randomizeCall(1) \/ baseLoaded(1) \/ Levels(1) \/ Bosses(1) \/ BossHealth(1)
    \/ SwapRandom(1) \/ SwapAll(1)

SpecExits == InitExits /\ [][NextExits]_vars

ExitsDone == pc[1] = "bonus" /\ On(5)

\* the two bytes of pair k are those of the patched image, exchanged
ExitSwapped(k) ==
    /\ Rd(rom, DualExits[k][2]) = Rd(log[1].patched, DualExits[k][3])
    /\ Rd(rom, DualExits[k][3]) = Rd(log[1].patched, DualExits[k][2])

\* the two bytes of pair k are those of the patched image
ExitKept(k) ==
    /\ Rd(rom, DualExits[k][2]) = Rd(log[1].patched, DualExits[k][2])
    /\ Rd(rom, DualExits[k][3]) = Rd(log[1].patched, DualExits[k][3])

\* C15 as stated: a pair is swapped if and only if its level byte differs from the
\* byte at 0x3C24A.
C15_SwappedUnlessAssigned ==
    ExitsDone =>
        \A k \in 1..Len(DualExits) :
            IF DualExits[k][1] # Rd(rom, \h3C24A) THEN ExitSwapped(k) ELSE ExitKept(k)

\* C15: the pair of level 0x11 is swapped if and only if the byte at 0x3C24A is 0x11;
\* every other pair is swapped if and only if its level byte differs from that byte.
C15_SwapAllExits ==
    ExitsDone =>
        \A k \in 1..Len(DualExits) :
            IF (IF DualExits[k][1] = \h11
                THEN Rd(rom, \h3C24A) = \h11
                ELSE DualExits[k][1] # Rd(rom, \h3C24A))
            THEN ExitSwapped(k) ELSE ExitKept(k)

\* level 0x11 is assigned at 0x3C24A and all seven pairs are swapped
C15_Witness ==
    /\ ExitsDone
    /\ Rd(rom, \h3C24A) = \h11
    /\ \A k \in 1..Len(DualExits) : ExitSwapped(k) /\ ~ExitKept(k)

\* another level with two exits is assigned: its pair and the pair of 0x11 are kept
C15_OtherAssigned ==
    /\ ExitsDone
    /\ Rd(rom, \h3C24A) = \h07
    /\ ExitKept(5) /\ ExitKept(2) /\ ExitSwapped(1)

(***************************************************************************)
(* One draw of #randomInt, from generator states over the whole range.     *)
(***************************************************************************)
\* the states before 0 and before 0xFFFFFFFF are among them
GenStates ==
    {S32(hi, lo) : hi \in {\h0000, \h0001, \h1000, \h7FFF, \h8000, \hFFFF},
                   lo \in {\h0000, \h0001, \h5678, \h8000, \hFFFF}}
        \cup {S32(\h25D6, \h0FE5), S32(\h26F5, \hB720)}

MaxLimit == 26
Limits == ((0 - 3)..8) \cup {25, MaxLimit}

IntInputs ==
    {[state |-> s, lim |-> lim, done |-> FALSE, val |-> 0, next |-> s] :
        s \in GenStates, lim \in Limits}

InitInt ==
    /\ constructor(Image(0, TRUE, 0), Num(\h000100), S32(\h1000, \h0000), S32(\hFFFF, \hFFFF))
    /\ probe \in IntInputs

int ==
    /\ probe.done = FALSE
    /\ probe' = [probe EXCEPT !.done = TRUE,
                              !.val = randomInt(probe.state, probe.lim).val,
                              !.next = randomInt(probe.state, probe.lim).seed]
    /\ UNCHANGED <<rom, version, flags, initialSeed, seed, valid, pc, running, file, out,
                   ran, log, lastMask, lastOp, nsets>>

SpecInt == InitInt /\ [][int]_vars

\* x + y mod 2^32
Add32(x, y) == S32((x.hi + y.hi + (x.lo + y.lo) \div Half) % Half, (x.lo + y.lo) % Half)

\* x * a mod 2^32, by the bits of a: st.acc + st.x * st.a
RECURSIVE Mul32Loop(_)
Mul32Loop(st) ==
    IF st.a = 0 THEN st.acc
    ELSE Mul32Loop([a |-> st.a \div 2,
                    x |-> Add32(st.x, st.x),
                    acc |-> IF st.a % 2 = 1 THEN Add32(st.acc, st.x) ELSE st.acc])

Mul32(x, a) == Mul32Loop([a |-> a, x |-> x, acc |-> S32(0, 0)])

\* the draw advances the state by the recurrence
Recurrence ==
    probe.next = Add32(Mul32(probe.state, LcgA), S32(LcgC \div Half, LcgC % Half))

\* C16 as stated: the recurrence, int(limit) in [0, limit) for limit >= 1, and
\* int(limit) = 0 for every limit <= 0.
C16_IntZeroBelowOne ==
    probe.done =>
        /\ Recurrence
        /\ probe.lim >= 1 => probe.val \in 0..(probe.lim - 1)
        /\ probe.lim <= 0 => probe.val = 0

\* C16: the recurrence, int(limit) in [0, limit) for limit >= 1, int(0) = 0, and for
\* limit < 0 int(limit) is in [limit, -1] unless the new state is 0, when it is 0.
C16_IntRange ==
    probe.done =>
        /\ Recurrence
        /\ probe.lim >= 1 => probe.val \in 0..(probe.lim - 1)
        /\ probe.lim = 0 => probe.val = 0
        /\ probe.lim < 0 =>
              IF probe.next = S32(0, 0) THEN probe.val = 0
              ELSE probe.val \in probe.lim..(0 - 1)

\* a draw with a negative limit that is not 0
C16_Witness ==
    /\ probe.done
    /\ probe.lim = 0 - 3
    /\ probe.val = 0 - 3
    /\ probe.next.hi >= \hAAAB

\* the largest value of a draw with the largest limit
C16_Largest ==
    /\ probe.done
    /\ probe.lim = MaxLimit
    /\ probe.next = S32(\hFFFF, \hFFFF)
    /\ probe.val = MaxLimit - 1

(***************************************************************************)
(* The tables the location pass leaves.                                    *)
(***************************************************************************)
LevelsDone == pc[1] = "bosses" /\ On(0)

\* C17: after the location pass the six arena slots hold a permutation of the six boss
\* level bytes, the six completion-flag slots a permutation of the six zone-clear
\* bytes, and the flag slot paired with the level byte in an arena holds that arena's
\* zone-clear byte.
C17_BossTableCoupled ==
    LevelsDone =>
        /\ {Rd(rom, LevelBossSetOne[k][1]) : k \in 1..6} = {\h05, \h09, \h0D, \h10, \h13, \h17}
        /\ {Rd(rom, LevelBossSetTwo[k][2]) : k \in 1..6} = {\h05, \h09, \h0E, \h11, \h17, \h1D}
        /\ \A k \in 1..Len(LevelBossSetOne) :
              \E j \in 1..Len(LevelBossSetTwo) :
                  /\ LevelBossSetTwo[j][1] = Rd(rom, LevelBossSetOne[k][1])
                  /\ Rd(rom, LevelBossSetTwo[j][2]) = LevelBossSetOne[k][2]

\* the first arena holds the level of another zone, whose flag slot holds the first
\* arena's zone-clear byte
C17_Witness ==
    /\ LevelsDone
    /\ Rd(log[1].patched, \h3C238) = \h05
    /\ Rd(rom, \h3C238) = \h17
    /\ Rd(rom, \h30508) = \h05
    /\ Rd(rom, \h304F6) # \h05

\* C19: with bit 1 clear the seven hidden slots hold a permutation of the seven hidden
\* levels and the 18 main slots a permutation of the main levels; with bit 1 set the 25
\* slots hold a permutation of the 25 levels; the mirror slot 0x3C232 holds the byte at
\* 0x3C21D.
C19_HiddenPool ==
    LevelsDone =>
        /\ IF On(1)
           THEN {Rd(rom, o) : o \in Range(MainOffsets) \cup Range(SecretOffsets)}
                    = Range(MainLevels) \cup {\h02, \h07, \h08, \h0F, \h11, \h12, \h14}
           ELSE /\ {Rd(rom, o) : o \in {\h3C23A, \h3C241, \h3C242, \h3C260, \h3C21D,
                                        \h3C254, \h3C24A}}
                       = {\h02, \h07, \h08, \h0F, \h11, \h12, \h14}
                /\ {Rd(rom, o) : o \in Range(MainOffsets)} = Range(MainLevels)
        /\ Cardinality(Range(MainOffsets) \cup Range(SecretOffsets)) = 25
        /\ Cardinality(Range(MainLevels) \cup Range(SecretLevels)) = 25
        /\ Rd(rom, \h3C232) = Rd(rom, \h3C21D)

\* bit 1 clear: slot 0x3C21D holds another hidden level than before, and so does the
\* mirror slot
C19_Witness ==
    /\ LevelsDone
    /\ ~On(1)
    /\ Rd(log[1].patched, \h3C21D) = \h11
    /\ Rd(rom, \h3C21D) = \h07
    /\ Rd(rom, \h3C232) = \h07

\* bit 1 set: slot 0x3C21D holds a main level and a main slot holds a hidden level
C19_Mixed ==
    /\ LevelsDone
    /\ On(1)
    /\ Rd(rom, \h3C21D) \in Range(MainLevels)
    /\ Rd(rom, \h3C232) = Rd(rom, \h3C21D)
    /\ \E o \in Range(MainOffsets) : Rd(rom, o) \in Range(SecretLevels)

(***************************************************************************)
(* The enemy pass on an image that holds, in every level of the pass, an   *)
(* entity for every id of the level's pools and cases and one for an id of *)
(* no pool, each level's list closed by 0xFF at the level's end offset.    *)
(***************************************************************************)
\* <<offset, id>>
PoolEntities ==
    <<
      <<\hE077, \h01>>, <<\hE07A, \h08>>, <<\hE07D, \h09>>, <<\hE080, \h3A>>, <<\hE083, \h70>>,
      <<\hE086, \h0C>>, <<\hE0BD, \h1F>>, <<\hE0C0, \h20>>, <<\hE0C3, \h21>>, <<\hE0C6, \h22>>,
      <<\hE0C9, \h70>>, <<\hE124, \h44>>, <<\hE127, \h58>>, <<\hE12A, \h70>>, <<\hE182, \h35>>,
      <<\hE185, \h3E>>, <<\hE188, \h40>>, <<\hE18B, \h41>>, <<\hE18E, \h42>>, <<\hE191, \h70>>,
      <<\hE1EF, \h33>>, <<\hE1F2, \h34>>, <<\hE1F5, \h5D>>, <<\hE1F8, \h70>>, <<\hE24A, \h08>>,
      <<\hE24D, \h39>>, <<\hE250, \h3A>>, <<\hE253, \h70>>, <<\hE2A2, \h4E>>, <<\hE2A5, \h4F>>,
      <<\hE2A8, \h4D>>, <<\hE2AB, \h51>>, <<\hE2AE, \h53>>, <<\hE2B1, \h70>>, <<\hE30C, \h4D>>,
      <<\hE30F, \h54>>, <<\hE312, \h55>>, <<\hE315, \h56>>, <<\hE318, \h5E>>, <<\hE31B, \h5F>>,
      <<\hE31E, \h70>>, <<\hE321, \h0C>>, <<\hE385, \h4D>>, <<\hE388, \h57>>, <<\hE38B, \h70>>,
      <<\hE3D4, \h4F>>, <<\hE3D7, \h4D>>, <<\hE3DA, \h53>>, <<\hE3DD, \h5A>>, <<\hE3E0, \h5C>>,
      <<\hE3E3, \h70>>, <<\hE3E6, \h0C>>, <<\hE432, \h01>>, <<\hE435, \h40>>, <<\hE438, \h4B>>,
      <<\hE43B, \h70>>, <<\hE49C, \h08>>, <<\hE49F, \h09>>, <<\hE4A2, \h3A>>, <<\hE4A5, \h44>>,
      <<\hE4A8, \h4D>>, <<\hE4AB, \h70>>, <<\hE4FA, \h49>>, <<\hE4FD, \h01>>, <<\hE500, \h47>>,
      <<\hE503, \h48>>, <<\hE506, \h53>>, <<\hE509, \h70>>, <<\hE561, \h43>>, <<\hE564, \h4C>>,
      <<\hE567, \h09>>, <<\hE56A, \h4D>>, <<\hE56D, \h53>>, <<\hE570, \h70>>, <<\hE5C2, \h05>>,
      <<\hE5C5, \h06>>, <<\hE5C8, \h07>>, <<\hE5CB, \h08>>, <<\hE5CE, \h09>>, <<\hE5D1, \h0B>>,
      <<\hE5D4, \h3A>>, <<\hE5D7, \h3D>>, <<\hE5DA, \h70>>, <<\hE62C, \h01>>, <<\hE62F, \h21>>,
      <<\hE632, \h06>>, <<\hE635, \h55>>, <<\hE638, \h56>>, <<\hE63B, \h53>>, <<\hE63E, \h70>>,
      <<\hE6C0, \h21>>, <<\hE6C3, \h01>>, <<\hE6C6, \h08>>, <<\hE6C9, \h20>>, <<\hE6CC, \h3A>>,
      <<\hE6CF, \h55>>, <<\hE6D2, \h70>>, <<\hE706, \h05>>, <<\hE709, \h39>>, <<\hE70C, \h57>>,
      <<\hE70F, \h5B>>, <<\hE712, \h70>>, <<\hE715, \h0D>>, <<\hE77C, \h4D>>, <<\hE77F, \h58>>,
      <<\hE782, \h5A>>, <<\hE785, \h70>>, <<\hE7C8, \h5C>>, <<\hE7CB, \h5E>>, <<\hE7CE, \h5F>>,
      <<\hE7D1, \h70>>, <<\hE823, \h22>>, <<\hE826, \h23>>, <<\hE829, \h25>>, <<\hE82C, \h27>>,
      <<\hE82F, \h70>>, <<\hE890, \h07>>, <<\hE893, \h33>>, <<\hE896, \h34>>, <<\hE899, \h3D>>,
      <<\hE89C, \h5D>>, <<\hE89F, \h70>>, <<\hE8F7, \h01>>, <<\hE8FA, \h08>>, <<\hE8FD, \h09>>,
      <<\hE900, \h34>>, <<\hE903, \h3A>>, <<\hE906, \h55>>, <<\hE909, \h70>>, <<\hE90C, \h0D>>,
      <<\hE955, \h01>>, <<\hE958, \h08>>, <<\hE95B, \h09>>, <<\hE95E, \h3A>>, <<\hE961, \h70>>,
      <<\hE99E, \h68>>, <<\hE9A1, \h69>>, <<\hE9A4, \h6E>>, <<\hE9A7, \h6F>>, <<\hE9AA, \h70>>,
      <<\hEA2F, \h08>>, <<\hEA32, \h09>>, <<\hEA35, \h3A>>, <<\hEA38, \h70>>, <<\hEAA3, \h08>>,
      <<\hEAA6, \h09>>, <<\hEAA9, \h3A>>, <<\hEAAC, \h70>>, <<\hEB55, \h01>>, <<\hEB58, \h09>>,
      <<\hEB5B, \h70>>>>

\* the end offsets of the levels 00..1B
LevelEnds ==
    <<
      \hE0BC, \hE123, \hE181, \hE1EE, \hE249, \hE2A1, \hE30B, \hE384, \hE3D3, \hE431,
      \hE49B, \hE4F9, \hE560, \hE5C1, \hE62B, \hE6BF, \hE705, \hE77B, \hE7C7, \hE822,
      \hE88F, \hE8F6, \hE954, \hE99D, \hEA2E, \hEA7D, \hEAA2, \hEACD>>

\* the entity at offset o with the id, its position bits and its third byte
PoolEntity(e) == <<e[1], e[2], e[1] % 16, (e[1] \div 3) % 32, (e[1] % 200) + 1>>

EnemyImage ==
    LET r1 == writeAll(<<>>, run(\h134, 25), HeaderBytes(0, FALSE))
        r2 == Wr(r1, \h14D, HeaderComp(0, FALSE))
        r3 == writeAll(r2, [k \in 1..(3 * Len(PoolEntities)) |->
                               PoolEntities[(k - 1) \div 3 + 1][1] + ((k - 1) % 3)],
                       [k \in 1..(3 * Len(PoolEntities)) |->
                           entityByte(PoolEntity(PoolEntities[(k - 1) \div 3 + 1]),
                                      (k - 1) % 3)])
    IN writeAll(r3, LevelEnds, [k \in 1..Len(LevelEnds) |-> \hFF])

EnemySeeds == {S32(hi, \hC0DE) : hi \in \h1000..\h100F}

InitEnemies ==
    /\ \E sd \in EnemySeeds : constructor(EnemyImage, Num(\h000100), sd, S32(\hFFFF, \hFFFF))
    /\ probe = <<>>

\* a call up to the end of the enemy pass
NextEnemies ==
    \/ randomizeCall(1) \/ baseLoaded(1) \/ Levels(1) \/ Bosses(1) \/ BossHealth(1)
    \/ SwapRandom(1) \/ SwapAll(1) \/ Bonus(1) \/ Enemies(1)

SpecEnemies == InitEnemies /\ [][NextEnemies]_vars

EnemiesDone == pc[1] = "powerups" /\ On(8)

\* the pools the pass applies to an entity at offset o that decodes to b: those of the
\* levels whose range holds o and whose pool holds b, those of the cases labelled b
\* in the switch of the level that holds o, and the piranha plants
Applied(o, b) ==
    {Range(EnemyLevels[k][1]) :
        k \in {j \in 1..Len(EnemyLevels) :
                  /\ o >= EnemyLevels[j][2] /\ o < EnemyLevels[j][3]
                  /\ b \in Range(EnemyLevels[j][1])}}
    \cup {Range(SwitchLevels[c[1]][3][c[2]][2]) :
             c \in {d \in (1..Len(SwitchLevels)) \X (1..3) :
                       /\ o >= SwitchLevels[d[1]][1] /\ o < SwitchLevels[d[1]][2]
                       /\ d[2] <= Len(SwitchLevels[d[1]][3])
                       /\ b \in SwitchLevels[d[1]][3][d[2]][1]}}
    \cup (IF Inside(o) /\ b \in {\h0C, \h0D} THEN {{\h0C, \h0D}} ELSE {})

\* the entity at o after the pass: its id is in a pool applied to the id it had, or it
\* is as it was when no pool applies; its position bits are kept
Closed(o) ==
    /\ Rd(rom, o) % 16 = Rd(log[1].patched, o) % 16
    /\ Rd(rom, o + 1) % 32 = Rd(log[1].patched, o + 1) % 32
    /\ IF Applied(o, IdAt(log[1].patched, o)) = {}
       THEN IdAt(rom, o) = IdAt(log[1].patched, o)
       ELSE \E pool \in Applied(o, IdAt(log[1].patched, o)) :
                IdAt(log[1].patched, o) \in pool /\ IdAt(rom, o) \in pool

\* C18: after the enemy pass every entity decodes to an id of a pool that was applied
\* to the id it had (the value-conditioned pools included), only id bits of its two
\* bytes differ, an entity whose id is in no applicable pool is as it was, and nothing
\* else is written but the five thwomp bytes.
C18_PoolClosure ==
    EnemiesDone =>
        /\ \A k \in 1..Len(PoolEntities) : Closed(PoolEntities[k][1])
        /\ Diff(rom, log[1].patched)
              \subseteq {PoolEntities[k][1] + d : k \in 1..Len(PoolEntities), d \in {0, 1}}
                            \cup Range(Thwomps)

\* level 0C: the entity 0x49 was redrawn from the pool of its case, an entity 0x47 from
\* the narrower pool, and the entity 0x53, which labels no case, is as it was
C18_Witness ==
    /\ EnemiesDone
    /\ IdAt(log[1].patched, \hE4FA) = \h49
    /\ IdAt(rom, \hE4FA) \in {\h01, \h47, \h48, \h53}
    /\ IdAt(log[1].patched, \hE500) = \h47
    /\ IdAt(rom, \hE500) \in {\h01, \h48, \h53}
    /\ IdAt(rom, \hE506) = \h53
    /\ IdAt(rom, \hE509) = \h70

====
